---- MODULE Spec2Model ----
(***************************************************************************)
(* A model of the metrics query engine (square/metrics): the transforms of *)
(* package transform, the grouping and aggregation of package aggregate,   *)
(* the naming rules of package internal, the binary operators, the        *)
(* expressions and the commands of package query, the fetch of package     *)
(* blueflood, the fetch limit and the parallel multi backend, and the      *)
(* profiler of package inspect.                                            *)
(*                                                                         *)
(* Each family of functions has its own variables and its own              *)
(* specification, and the variables of the other families stay idle.  For  *)
(* the pure functions Init draws the inputs from bounded sets and there is *)
(* one action per function, which stores what the function returns.  The   *)
(* fetch is a caller, a goroutine and a timer, one action per step between *)
(* two points where they can wait for each other.                          *)
(*                                                                         *)
(* Go slices are 0-based, TLA+ sequences 1-based: slot i of the source is  *)
(* element i+1 here.                                                       *)
(***************************************************************************)
EXTENDS Integers, Sequences, FiniteSets, Bags, TLC

VARIABLES
    values,      \* transform: the input vector []float64
    scale,       \* transform: resolution in seconds (float64)
    result,      \* transform: the vector the transform returned
    op,          \* transform: the transform that was applied, or "none"
    list,        \* aggregate: the input api.SeriesList
    tags,        \* aggregate: the tags argument of groupBy / AggregateBy
    groups,      \* aggregate: the []group groupBy returned
    aggregator,  \* aggregate: the aggregator handed to AggregateBy
    aggResult,   \* aggregate: the api.SeriesList AggregateBy returned
    aggPanic,    \* aggregate: applyAggregation panicked
    aggOp,       \* aggregate: "none", "groupBy" or "AggregateBy"
    array,       \* aggregate: the []float64 handed to a reducer
    reduced,     \* aggregate: the float64 the reducer returned
    reducer,     \* aggregate: the reducer that was applied, or "none"
    rule,        \* rules: the compiled Rule
    input,       \* rules: the graphite name handed to MatchRule
    matchRes,    \* rules: what MatchRule returned, with the regex submatches
    tm,          \* rules: the api.TaggedMetric handed to ToGraphiteName
    reversed,    \* rules: what ToGraphiteName returned
    ruleOp,      \* rules: "none", "MatchRule" or "ToGraphiteName"
    apList,      \* ApplyTransform: the input api.SeriesList
    apTransform, \* ApplyTransform: the transform
    apParameters,\* ApplyTransform: the parameters []function.Value
    apResult,    \* ApplyTransform: the api.SeriesList it returned
    apErr,       \* ApplyTransform: "nil", "error" or "panic"
    apOp,        \* ApplyTransform: "none" or "ApplyTransform"
    joinLeft,    \* join: the left api.SeriesList
    joinRight,   \* join: the right api.SeriesList
    joinFun,     \* join: the operator
    joinResult,  \* join: the api.SeriesList of the binary operation
    joinOp,      \* join: "none" or "join"
    bkTimerange, \* buckets: the api.Timerange of the request
    bkPoints,    \* buckets: the []metricPoint of the parsed response
    bkSample,    \* buckets: the api.SampleMethod
    bkBuckets,   \* buckets: what bucketsFromMetricPoints returned
    bkValues,    \* buckets: what processResult returned
    bkOp,        \* buckets: "none" or "processResult"
    request,     \* fetch: the api.FetchSeriesRequest
    fsPc,        \* fetch: where the caller of FetchSingleSeries stands
    helperPc,    \* fetch: where the goroutine started by fetch stands
    helperMsg,   \* fetch: what the goroutine sends on success or failure
    timerFired,  \* fetch: the channel of time.After holds the time
    fetchRet,    \* fetch: what fetch returned
    fsRet,       \* fetch: what FetchSingleSeries returned
    counters,    \* fetch limit: the fetchCounter of each SELECT execution
    fcLast,      \* fetch limit: the last call, NewFetchCounter or Consume
    evContext,   \* select: the predicate and the fetch limit of the command
    evExprs,     \* select: the expressions of the command
    evCounter,   \* select: the fetchCounter of this execution
    evIndex,     \* select: how many expressions have been evaluated
    evResults,   \* select: the values of the expressions evaluated so far
    evCalls,     \* select: the calls made to the API, the counter and the backend
    evRet,       \* select: what evaluateExpressions returned
    evPc,        \* select: "Execute", "evaluating" or "returned"
    mfParallelism, \* multi-fetch: the size of the worker pool
    mfState,     \* multi-fetch: per request "queued", "fetching", "done", "failed" or "cancelled"
    mfErr,       \* multi-fetch: per request the error its worker returned, or "nil"
    mfToken,     \* multi-fetch: the shared cancellation token
    mfRet,       \* multi-fetch: what the batch returned
    mfPc,        \* multi-fetch: "fetching" or "returned"
    cmd,         \* command: the command being executed
    cmdMetric,   \* command: whether context.Metric is set
    cmdCollab,   \* command: the errors the collaborators returned to the command
    cmdLatency,  \* command: what RecordQueryLatency was given
    cmdRet,      \* command: what Execute returned
    cmdPc,       \* command: "Execute" or "returned"
    profiles,    \* profiler: p.profiles
    mutex,       \* profiler: the goroutine that holds p.mutex, 0 when unlocked
    prPc,        \* profiler: per goroutine its position
    prProfile,   \* profiler: per goroutine the profile its Record is about
    prLocal,     \* profiler: per goroutine the slice it read from p.profiles
    prCalls,     \* profiler: the number of calls of Record made
    prCompleted, \* profiler: the profiles whose Record has completed
    prAll,       \* profiler: the results of the calls of All
    prFlushed,   \* profiler: the results of the calls of Flush
    heap,        \* vectors: the []float64 arrays that exist, by address
    hpList,      \* vectors: the input series list, its Values being addresses
    hpBefore,    \* vectors: the arrays and the input list when the call was made
    hpRet,       \* vectors: the series returned, their Values being addresses
    hpGroups,    \* vectors: the groups groupBy returned
    hpOp         \* vectors: "call", or the function that was called

trVars == <<values, scale, result, op>>
aggVars == <<list, tags, groups, aggregator, aggResult, aggPanic, aggOp>>
redVars == <<array, reduced, reducer>>
ruleVars == <<rule, input, matchRes, tm, reversed, ruleOp>>
apVars == <<apList, apTransform, apParameters, apResult, apErr, apOp>>
joinVars == <<joinLeft, joinRight, joinFun, joinResult, joinOp>>
bkVars == <<bkTimerange, bkPoints, bkSample, bkBuckets, bkValues, bkOp>>
fetchVars == <<request, fsPc, helperPc, helperMsg, timerFired, fetchRet, fsRet>>
fcVars == <<counters, fcLast>>
evVars == <<evContext, evExprs, evCounter, evIndex, evResults, evCalls, evRet, evPc>>
mfVars == <<mfParallelism, mfState, mfErr, mfToken, mfRet, mfPc>>
cmdVars == <<cmd, cmdMetric, cmdCollab, cmdLatency, cmdRet, cmdPc>>
prVars == <<profiles, mutex, prPc, prProfile, prLocal, prCalls, prCompleted, prAll, prFlushed>>
hpVars == <<heap, hpList, hpBefore, hpRet, hpGroups, hpOp>>
vars == <<trVars, aggVars, redVars, ruleVars, apVars, joinVars, bkVars, fetchVars, fcVars, evVars, mfVars, cmdVars, prVars, hpVars>>

(***************************************************************************)
(* float64.  A value is NaN, +Inf, -Inf or a finite number, kept as an     *)
(* exact fraction n/d in lowest terms with d > 0.  Rounding and the sign   *)
(* of zero are not modelled; NaN and the infinities follow IEEE-754.       *)
(***************************************************************************)
Abs(n) == IF n < 0 THEN -n ELSE n

Sign(n) == IF n < 0 THEN -1 ELSE IF n > 0 THEN 1 ELSE 0

RECURSIVE Gcd(_, _)
Gcd(a, b) == IF b = 0 THEN a ELSE Gcd(b, a % b)

NaN == [k |-> "nan", n |-> 0, d |-> 1]

Inf(s) == [k |-> "inf", n |-> s, d |-> 1]

PosInf == Inf(1)

NegInf == Inf(-1)

Fin(n, d) ==
    LET s == IF d < 0 THEN -1 ELSE 1
        g == Gcd(Abs(n), Abs(d))
    IN  [k |-> "fin", n |-> (s * n) \div g, d |-> (s * d) \div g]

F(n) == Fin(n, 1)

Zero == F(0)

IsNaN(x) == x.k = "nan"

IsInf(x) == x.k = "inf"

IsFin(x) == x.k = "fin"

\* unary minus
FNeg(x) == IF IsFin(x) THEN Fin(-x.n, x.d) ELSE IF IsInf(x) THEN Inf(-x.n) ELSE NaN

\* x + y
FAdd(x, y) ==
    IF IsNaN(x) \/ IsNaN(y) THEN NaN
    ELSE IF IsInf(x) /\ IsInf(y) THEN (IF x.n = y.n THEN x ELSE NaN)
    ELSE IF IsInf(x) THEN x
    ELSE IF IsInf(y) THEN y
    ELSE Fin(x.n * y.d + y.n * x.d, x.d * y.d)

\* x - y
FSub(x, y) == FAdd(x, FNeg(y))

\* x * y
FMul(x, y) ==
    IF IsNaN(x) \/ IsNaN(y) THEN NaN
    ELSE IF IsInf(x) \/ IsInf(y)
         THEN (IF Sign(x.n) * Sign(y.n) = 0 THEN NaN ELSE Inf(Sign(x.n) * Sign(y.n)))
    ELSE Fin(x.n * y.n, x.d * y.d)

\* x / y
FDiv(x, y) ==
    IF IsNaN(x) \/ IsNaN(y) THEN NaN
    ELSE IF IsInf(x) /\ IsInf(y) THEN NaN
    ELSE IF IsInf(x) THEN Inf(IF y.n < 0 THEN -x.n ELSE x.n)
    ELSE IF IsInf(y) THEN Zero
    ELSE IF y.n = 0 THEN (IF x.n = 0 THEN NaN ELSE Inf(Sign(x.n)))
    ELSE Fin(x.n * y.d, x.d * y.n)

\* x < y (false when either is NaN)
FLess(x, y) ==
    IF IsNaN(x) \/ IsNaN(y) THEN FALSE
    ELSE IF IsInf(x) THEN x.n = -1 /\ y # x
    ELSE IF IsInf(y) THEN y.n = 1
    ELSE x.n * y.d < y.n * x.d

(***************************************************************************)
(* Package transform.  The parameters argument is left out of the          *)
(* transforms that never read it.                                          *)
(***************************************************************************)
\* Rate with the clamp written as !(x >= 0), which also clamps NaN
RateClampNaN(vs, sc) ==
    [i \in 1..Len(vs) |->
        IF i = 1 THEN Zero
        ELSE LET r == FDiv(FSub(vs[i], vs[i - 1]), sc)
             IN  IF FLess(r, Zero) \/ IsNaN(r) THEN Zero ELSE r]

\* Derivative taking the difference to the next slot instead of the previous
DerivativeForward(vs, sc) ==
    [i \in 1..Len(vs) |->
        IF i = 1 THEN Zero
        ELSE IF i = Len(vs) THEN Zero
        ELSE FDiv(FSub(vs[i + 1], vs[i]), sc)]

Derivative(vs, sc) ==
    [i \in 1..Len(vs) |->
        IF i = 1 THEN Zero
        ELSE FDiv(FSub(vs[i], vs[i - 1]), sc)]

Rate(vs, sc) ==
    [i \in 1..Len(vs) |->
        IF i = 1 THEN Zero
        ELSE LET r == FDiv(FSub(vs[i], vs[i - 1]), sc)
             IN  IF FLess(r, Zero) THEN Zero ELSE r]

\* the running sum of Integral and Cumulative after the iteration of slot i
RECURSIVE runningSum(_, _)
runningSum(vs, i) ==
    IF i = 0 THEN Zero
    ELSE LET before == runningSum(vs, i - 1)
         IN  IF ~IsNaN(vs[i]) THEN FAdd(before, vs[i]) ELSE before

\* a running sum that starts again from 0 at a NaN
RECURSIVE runningSumResets(_, _)
runningSumResets(vs, i) ==
    IF i = 0 THEN Zero
    ELSE IF ~IsNaN(vs[i]) THEN FAdd(runningSumResets(vs, i - 1), vs[i]) ELSE Zero

\* Integral whose running sum starts again at a NaN
IntegralResets(vs, sc) == [i \in 1..Len(vs) |-> FMul(runningSumResets(vs, i), sc)]

\* Integral without the scale
IntegralUnscaled(vs, sc) == [i \in 1..Len(vs) |-> runningSum(vs, i)]

Integral(vs, sc) == [i \in 1..Len(vs) |-> FMul(runningSum(vs, i), sc)]

\* Cumulative whose running sum starts again at a NaN
CumulativeResets(vs, sc) == [i \in 1..Len(vs) |-> runningSumResets(vs, i)]

Cumulative(vs, sc) == [i \in 1..Len(vs) |-> runningSum(vs, i)]

\* NaNKeepLast reading the slot before from the input instead of the result
NaNKeepLastFromInput(vs, sc) ==
    [i \in 1..Len(vs) |-> IF IsNaN(vs[i]) /\ i > 1 THEN vs[i - 1] ELSE vs[i]]

\* result[i] of NaNKeepLast
RECURSIVE keptLast(_, _)
keptLast(vs, i) == IF IsNaN(vs[i]) /\ i > 1 THEN keptLast(vs, i - 1) ELSE vs[i]

NaNKeepLast(vs, sc) == [i \in 1..Len(vs) |-> keptLast(vs, i)]

(***************************************************************************)
(* Package aggregate.  An api.TagSet is a function from the keys it holds  *)
(* to their values; reading a key a Go map does not hold gives "".  An     *)
(* api.Timeseries is [Values, TagSet], a group is [List, TagSet] and an    *)
(* api.SeriesList is [Series, Timerange, Name].                            *)
(***************************************************************************)
Range(s) == {s[i] : i \in 1..Len(s)}

\* tagSet[key] of a Go map[string]string
Lookup(tagSet, key) == IF key \in DOMAIN tagSet THEN tagSet[key] ELSE ""

\* api.NewTagSet()
NewTagSet == [key \in {} |-> ""]

SetMin(S) == CHOOSE x \in S : \A y \in S : x <= y

groupAccepts(left, right, tagList) ==
    \A i \in 1..Len(tagList) : Lookup(left, tagList[i]) = Lookup(right, tagList[i])

\* addToGroup that skips a series when its row already exists
addToGroupDropsSeries(rows, series, tagList) ==
    LET newTags == [key \in Range(tagList) |-> Lookup(series.TagSet, key)]
        member == [Values |-> series.Values, TagSet |-> newTags]
        accepting == {i \in 1..Len(rows) : groupAccepts(rows[i].TagSet, newTags, tagList)}
    IN  IF accepting # {}
        THEN rows
        ELSE Append(rows, [List |-> <<member>>, TagSet |-> newTags])

\* addToGroup comparing only the first tag of the list
addToGroupFirstTagOnly(rows, series, tagList) ==
    LET newTags == [key \in Range(tagList) |-> Lookup(series.TagSet, key)]
        member == [Values |-> series.Values, TagSet |-> newTags]
        accepting == {i \in 1..Len(rows) :
                        groupAccepts(rows[i].TagSet, newTags,
                                     IF tagList = <<>> THEN <<>> ELSE <<tagList[1]>>)}
    IN  IF accepting # {}
        THEN [rows EXCEPT ![SetMin(accepting)].List = Append(@, member)]
        ELSE Append(rows, [List |-> <<member>>, TagSet |-> newTags])

addToGroup(rows, series, tagList) ==
    LET newTags == [key \in Range(tagList) |-> Lookup(series.TagSet, key)]
        member == [Values |-> series.Values, TagSet |-> newTags]
        accepting == {i \in 1..Len(rows) : groupAccepts(rows[i].TagSet, newTags, tagList)}
    IN  IF accepting # {}
        THEN [rows EXCEPT ![SetMin(accepting)].List = Append(@, member)]
        ELSE Append(rows, [List |-> <<member>>, TagSet |-> newTags])

RECURSIVE groupRows(_, _, _)
\* the loop of groupBy over the first n series
groupRows(series, n, tagList) ==
    IF n = 0 THEN <<>>
    ELSE addToGroup(groupRows(series, n - 1, tagList), series[n], tagList)

\* a groupBy that also returns a group no series was added to
groupByWithEmptyGroup(l, tagList) ==
    Append(groupRows(l.Series, Len(l.Series), tagList), [List |-> <<>>, TagSet |-> NewTagSet])

groupBy(l, tagList) == groupRows(l.Series, Len(l.Series), tagList)

filterNaN(a) == SelectSeq(a, LAMBDA v : ~IsNaN(v))

RECURSIVE SumUpTo(_, _)
\* sum := 0.0; for _, v := range array { sum += v }
SumUpTo(a, n) == IF n = 0 THEN Zero ELSE FAdd(SumUpTo(a, n - 1), a[n])

\* math.Min and math.Max
MathMin(x, y) ==
    IF x = NegInf \/ y = NegInf THEN NegInf
    ELSE IF IsNaN(x) \/ IsNaN(y) THEN NaN
    ELSE IF FLess(x, y) THEN x ELSE y

MathMax(x, y) ==
    IF x = PosInf \/ y = PosInf THEN PosInf
    ELSE IF IsNaN(x) \/ IsNaN(y) THEN NaN
    ELSE IF FLess(y, x) THEN x ELSE y

RECURSIVE MinUpTo(_, _)
MinUpTo(a, n) == IF n = 0 THEN a[1] ELSE MathMin(MinUpTo(a, n - 1), a[n])

RECURSIVE MaxUpTo(_, _)
MaxUpTo(a, n) == IF n = 0 THEN a[1] ELSE MathMax(MaxUpTo(a, n - 1), a[n])

\* Sum without the call of filterNaN
SumNoFilter(a) == SumUpTo(a, Len(a))

Sum(a) == LET f == filterNaN(a) IN SumUpTo(f, Len(f))

Mean(a) ==
    LET f == filterNaN(a)
    IN  IF Len(f) = 0 THEN NaN ELSE FDiv(SumUpTo(f, Len(f)), F(Len(f)))

Min(a) ==
    LET f == filterNaN(a)
    IN  IF Len(f) = 0 THEN NaN ELSE MinUpTo(f, Len(f))

Max(a) ==
    LET f == filterNaN(a)
    IN  IF Len(f) = 0 THEN NaN ELSE MaxUpTo(f, Len(f))

Aggregators == {"Sum", "Mean", "Min", "Max"}

\* the call aggregator(timeSlice) of a func([]float64) float64
Aggregate(agg, a) ==
    CASE agg = "Sum" -> Sum(a)
      [] agg = "Mean" -> Mean(a)
      [] agg = "Min" -> Min(a)
      [] agg = "Max" -> Max(a)

\* applyAggregation reading every slot from slot 0
applyAggregationSlotZero(g, agg) ==
    [Values |-> [i \in 1..Len(g.List[1].Values) |->
                    Aggregate(agg, [j \in 1..Len(g.List) |-> g.List[j].Values[1]])],
     TagSet |-> g.TagSet]

\* the result of applyAggregation on a group that is not empty
applyAggregation(g, agg) ==
    [Values |-> [i \in 1..Len(g.List[1].Values) |->
                    Aggregate(agg, [j \in 1..Len(g.List) |-> g.List[j].Values[i]])],
     TagSet |-> g.TagSet]

\* applyAggregation panics on an empty group
aggregationPanics(g) == Len(g.List) = 0

AggregateBy(l, agg, tagList) ==
    LET gs == groupBy(l, tagList)
    IN  [Series |-> [i \in 1..Len(gs) |-> applyAggregation(gs[i], agg)],
         Timerange |-> l.Timerange,
         Name |-> l.Name]

(***************************************************************************)
(* Package internal: the naming rules.  Compile, MatchRule and             *)
(* ToGraphiteName follow the description of the rule engine (forward       *)
(* match, inverse render, compilation errors) and the cases of their       *)
(* tests; the rule tester calls them as DoMatchRule and DoToGraphiteName   *)
(* do.                                                                     *)
(*                                                                         *)
(* A string is a sequence of characters.  A pattern is a string in which   *)
(* %tag% stands for a tag.  A custom regex is kept in the form [...]+ ,    *)
(* as the set of the characters it accepts.                                *)
(***************************************************************************)
Chars == {"a", "."}

DefaultClass == Chars \ {"."}

RECURSIVE Concat(_)
\* the strings of a sequence, one after the other
Concat(ss) == IF ss = <<>> THEN <<>> ELSE Head(ss) \o Concat(Tail(ss))

RECURSIVE SplitPercent(_)
\* strings.Split(pattern, "%")
SplitPercent(pattern) ==
    IF \A i \in 1..Len(pattern) : pattern[i] # "%"
    THEN <<pattern>>
    ELSE LET at == SetMin({i \in 1..Len(pattern) : pattern[i] = "%"})
         IN  <<SubSeq(pattern, 1, at - 1)>>
               \o SplitPercent(SubSeq(pattern, at + 1, Len(pattern)))

\* the tags of the segments of a split pattern, in order
TagsOf(segments) == [i \in 1..(Len(segments) \div 2) |-> segments[2 * i]]

\* a pattern is well formed when every % is closed, no tag is empty, no tag
\* repeats and two tags are never adjacent
WellFormed(pattern) ==
    LET segments == SplitPercent(pattern)
        tagList == TagsOf(segments)
    IN  /\ pattern # <<>>
        /\ Len(segments) % 2 = 1
        /\ \A i \in 1..Len(tagList) : tagList[i] # <<>>
        /\ \A i, j \in 1..Len(tagList) : tagList[i] = tagList[j] => i = j
        /\ \A i \in 2..(Len(segments) - 1) : segments[i] # <<>>

\* the literals and the tags of a well formed pattern, in order
TokensOf(pattern) ==
    LET segments == SplitPercent(pattern)
        all == [i \in 1..Len(segments) |-> [tag |-> i % 2 = 0, text |-> segments[i]]]
    IN  SelectSeq(all, LAMBDA t : t.text # <<>>)

\* Compile: the rule, or the code of the RuleError
Compile(raw) ==
    IF raw.MetricKeyPattern = <<>> \/ ~WellFormed(raw.MetricKeyPattern)
    THEN [err |-> "InvalidMetricKey", rule |-> <<>>]
    ELSE IF ~WellFormed(raw.Pattern)
    THEN [err |-> "InvalidPattern", rule |-> <<>>]
    ELSE [err |-> "nil",
          rule |-> [raw |-> raw,
                    graphitePatternTags |-> TagsOf(SplitPercent(raw.Pattern)),
                    metricKeyTags |-> TagsOf(SplitPercent(raw.MetricKeyPattern))]]

\* a class that lets every tag capture any character
ClassOfAnyChar(r, tag) == Chars

\* the characters a tag captures: [^.] unless a custom regex overrides it
ClassOf(r, tag) ==
    IF tag \in DOMAIN r.raw.Regex THEN r.raw.Regex[tag] ELSE DefaultClass

IsPrefix(p, s) == Len(p) <= Len(s) /\ SubSeq(s, 1, Len(p)) = p

NoMatch == [ok |-> FALSE, caps |-> NewTagSet]

RECURSIVE MatchTokens(_, _, _)
\* the anchored regular expression of the tokens on the string s: every tag
\* is a greedy (?P<tag>[class]+), so an earlier tag takes the longest run
\* that lets the rest match
MatchTokens(r, tokens, s) ==
    IF tokens = <<>>
    THEN (IF s = <<>> THEN [ok |-> TRUE, caps |-> NewTagSet] ELSE NoMatch)
    ELSE LET t == Head(tokens)
         IN  IF ~t.tag
             THEN (IF IsPrefix(t.text, s)
                   THEN MatchTokens(r, Tail(tokens), SubSeq(s, Len(t.text) + 1, Len(s)))
                   ELSE NoMatch)
             ELSE LET fits == {n \in 1..Len(s) :
                                /\ \A i \in 1..n : s[i] \in ClassOf(r, t.text)
                                /\ MatchTokens(r, Tail(tokens), SubSeq(s, n + 1, Len(s))).ok}
                  IN  IF fits = {}
                      THEN NoMatch
                      ELSE LET n == CHOOSE m \in fits : \A o \in fits : o <= m
                               rest == MatchTokens(r, Tail(tokens), SubSeq(s, n + 1, Len(s)))
                           IN  [ok |-> TRUE,
                                caps |-> [key \in DOMAIN rest.caps \cup {t.text} |->
                                            IF key = t.text THEN SubSeq(s, 1, n)
                                            ELSE rest.caps[key]]]

\* the pattern with every %tag% replaced by its value in the tag set
Interpolate(pattern, tagSet) ==
    LET tokens == TokensOf(pattern)
    IN  IF \E i \in 1..Len(tokens) : tokens[i].tag /\ tokens[i].text \notin DOMAIN tagSet
        THEN [err |-> "MissingTag", text |-> <<>>]
        ELSE [err |-> "nil",
              text |-> Concat([i \in 1..Len(tokens) |->
                                 IF tokens[i].tag THEN tagSet[tokens[i].text]
                                 ELSE tokens[i].text])]

NotMatched ==
    [matched |-> FALSE, MetricKey |-> <<>>, TagSet |-> NewTagSet, captures |-> NewTagSet]

\* MatchRule: the tagged metric and whether the rule matched; the tags that
\* are part of the metric key are left out of the tag set
MatchRule(r, name) ==
    LET m == MatchTokens(r, TokensOf(r.raw.Pattern), name)
        key == Interpolate(r.raw.MetricKeyPattern, m.caps)
    IN  IF ~m.ok \/ key.err # "nil"
        THEN NotMatched
        ELSE [matched |-> TRUE,
              MetricKey |-> key.text,
              TagSet |-> [t \in DOMAIN m.caps \ Range(r.metricKeyTags) |-> m.caps[t]],
              captures |-> m.caps]

\* ToGraphiteName that returns what it could build when a tag is missing
ToGraphiteNamePartial(r, metric) ==
    LET e == MatchTokens(r, TokensOf(r.raw.MetricKeyPattern), metric.MetricKey)
        merged == [t \in DOMAIN e.caps \cup DOMAIN metric.TagSet |->
                     IF t \in DOMAIN e.caps THEN e.caps[t] ELSE metric.TagSet[t]]
        name == Interpolate(r.raw.Pattern, merged)
    IN  IF ~e.ok
        THEN [name |-> <<>>, err |-> "CannotInterpolate"]
        ELSE IF name.err # "nil"
        THEN [name |-> metric.MetricKey, err |-> name.err]
        ELSE [name |-> name.text, err |-> "nil"]

\* ToGraphiteName that fills the pattern from the tag set alone
ToGraphiteNameTagSetOnly(r, metric) ==
    LET e == MatchTokens(r, TokensOf(r.raw.MetricKeyPattern), metric.MetricKey)
        name == Interpolate(r.raw.Pattern, metric.TagSet)
    IN  IF ~e.ok
        THEN [name |-> <<>>, err |-> "CannotInterpolate"]
        ELSE IF name.err # "nil"
        THEN [name |-> <<>>, err |-> name.err]
        ELSE [name |-> name.text, err |-> "nil"]

\* ToGraphiteName: the tags of the metric key are read back from the key,
\* the others come from the tag set
ToGraphiteName(r, metric) ==
    LET e == MatchTokens(r, TokensOf(r.raw.MetricKeyPattern), metric.MetricKey)
        merged == [t \in DOMAIN e.caps \cup DOMAIN metric.TagSet |->
                     IF t \in DOMAIN e.caps THEN e.caps[t] ELSE metric.TagSet[t]]
        name == Interpolate(r.raw.Pattern, merged)
    IN  IF ~e.ok
        THEN [name |-> <<>>, err |-> "CannotInterpolate"]
        ELSE IF name.err # "nil"
        THEN [name |-> <<>>, err |-> name.err]
        ELSE [name |-> name.text, err |-> "nil"]

(***************************************************************************)
(* Package transform on series lists.  A function.Value is a scalar or a   *)
(* value of another kind, whose ToScalar fails.  A call of a transform     *)
(* gives [values, err]; err is "nil", "error" or, when the call panics,    *)
(* "panic".                                                                *)
(***************************************************************************)
FAbs(x) == IF FLess(x, Zero) THEN FNeg(x) ELSE x

ScalarValue(x) == [kind |-> "scalar", value |-> x]

StringValue == [kind |-> "string", value |-> Zero]

\* the functions handed to MapMaker
MapFunctions == {"math.Abs", "negate"}

MapFunction(fun, x) == IF fun = "math.Abs" THEN FAbs(x) ELSE FNeg(x)

MapMaker(fun, vs) == [i \in 1..Len(vs) |-> MapFunction(fun, vs[i])]

\* Default: parameters[0] of an empty slice panics, ToScalar of a value that
\* is no scalar is an error
Default(vs, params, sc) ==
    IF Len(params) = 0 THEN [values |-> <<>>, err |-> "panic"]
    ELSE IF params[1].kind # "scalar" THEN [values |-> <<>>, err |-> "error"]
    ELSE [values |-> [i \in 1..Len(vs) |->
                        IF IsNaN(vs[i]) THEN params[1].value ELSE vs[i]],
          err |-> "nil"]

\* a transform: one of the exported functions, or MapMaker(fun)
Transforms ==
    [name : {"Derivative", "Integral", "Rate", "Cumulative", "Default", "NaNKeepLast"},
     fun : {"none"}]
        \cup [name : {"MapMaker"}, fun : MapFunctions]

NoTransform == [name |-> "none", fun |-> "none"]

\* transform(series.Values, parameters, scale)
CallTransform(t, vs, params, sc) ==
    IF t.name = "Default" THEN Default(vs, params, sc)
    ELSE [values |-> CASE t.name = "Derivative" -> Derivative(vs, sc)
                       [] t.name = "Integral" -> Integral(vs, sc)
                       [] t.name = "Rate" -> Rate(vs, sc)
                       [] t.name = "Cumulative" -> Cumulative(vs, sc)
                       [] t.name = "NaNKeepLast" -> NaNKeepLast(vs, sc)
                       [] OTHER -> MapMaker(t.fun, vs),
          err |-> "nil"]

\* api.Timeseries{} and api.SeriesList{}
NoTimeseries == [Values |-> <<>>, TagSet |-> <<>>]

NoSeriesList == [Series |-> <<>>, Timerange |-> <<>>, Name |-> ""]

\* transformTimeseries that returns the values with a fresh tag set
transformTimeseriesNewTagSet(series, t, params, sc) ==
    LET r == CallTransform(t, series.Values, params, sc)
    IN  IF r.err # "nil" THEN [series |-> NoTimeseries, err |-> r.err]
        ELSE [series |-> [Values |-> r.values, TagSet |-> NewTagSet], err |-> "nil"]

transformTimeseries(series, t, params, sc) ==
    LET r == CallTransform(t, series.Values, params, sc)
    IN  IF r.err # "nil" THEN [series |-> NoTimeseries, err |-> r.err]
        ELSE [series |-> [Values |-> r.values, TagSet |-> series.TagSet], err |-> "nil"]

\* the loop returns at the first series whose transform fails
ApplyTransform(l, t, params) ==
    LET sc == Fin(l.Timerange.resolution, 1000)
        rs == [i \in 1..Len(l.Series) |-> transformTimeseries(l.Series[i], t, params, sc)]
        failed == {i \in 1..Len(l.Series) : rs[i].err # "nil"}
    IN  IF failed # {}
        THEN [list |-> NoSeriesList, err |-> rs[SetMin(failed)].err]
        ELSE [list |-> [Series |-> [i \in 1..Len(l.Series) |-> rs[i].series],
                        Timerange |-> l.Timerange,
                        Name |-> l.Name],
              err |-> "nil"]

(***************************************************************************)
(* Package query: the binary operators on series lists.  The operator      *)
(* function joins the two lists on their tag sets (join-compatible pairs,  *)
(* left list outermost) and applies the operator slot by slot; it follows  *)
(* the description of the arithmetic join and Test_evaluateBinaryOperation.*)
(***************************************************************************)
\* the tag sets agree on every key present in both
joinCompatibleSameKeys(l, r) == l = r

joinCompatible(l, r) == \A key \in DOMAIN l \cap DOMAIN r : l[key] = r[key]

\* the union of two compatible tag sets
mergeTagSets(l, r) ==
    [key \in DOMAIN l \cup DOMAIN r |-> IF key \in DOMAIN l THEN l[key] ELSE r[key]]

\* the rows of the join after the first n pairs, the right list innermost
RECURSIVE joinRows(_, _, _)
joinRows(left, right, n) ==
    IF n = 0 THEN <<>>
    ELSE LET i == ((n - 1) \div Len(right)) + 1
             j == ((n - 1) % Len(right)) + 1
             before == joinRows(left, right, n - 1)
         IN  IF joinCompatible(left[i].TagSet, right[j].TagSet)
             THEN Append(before, [l |-> left[i], r |-> right[j],
                                  TagSet |-> mergeTagSets(left[i].TagSet, right[j].TagSet)])
             ELSE before

join(left, right) == joinRows(left, right, Len(left) * Len(right))

Operators == {"add", "subtract"}

\* the func(float64, float64) float64 of an operator
evalFunction(f, x, y) == IF f = "add" THEN FAdd(x, y) ELSE FSub(x, y)

evaluateBinaryOperation(f, leftList, rightList) ==
    LET rows == join(leftList.Series, rightList.Series)
    IN  [Series |-> [n \in 1..Len(rows) |->
                        [Values |-> [i \in 1..Len(rows[n].l.Values) |->
                                        evalFunction(f, rows[n].l.Values[i], rows[n].r.Values[i])],
                         TagSet |-> rows[n].TagSet]],
         Timerange |-> leftList.Timerange,
         Name |-> ""]

(***************************************************************************)
(* Package blueflood: from the points of a response to the values of a     *)
(* series.  A metricPoint is [Timestamp, Average, Min, Max]; an            *)
(* api.Timerange is [start, end, resolution] in milliseconds.              *)
(***************************************************************************)
\* a / b of Go's int64, which truncates toward zero (b > 0)
GoDiv(a, b) == IF a >= 0 THEN a \div b ELSE -((-a) \div b)

\* timerange.Slots()
Slots(tr) == (tr.end - tr.start) \div tr.resolution + 1

SampleMethods == {"SampleMean", "SampleMin", "SampleMax"}

\* samplerMap[method].fieldSelector
fieldSelector(method, point) ==
    CASE method = "SampleMean" -> point.Average
      [] method = "SampleMin" -> point.Min
      [] method = "SampleMax" -> point.Max

\* the loops of the bucket samplers after n values of the bucket
RECURSIVE sampleUpTo(_, _, _)
sampleUpTo(method, bucket, n) ==
    IF n = 0 THEN (IF method = "SampleMean" THEN Zero ELSE bucket[1])
    ELSE LET value == sampleUpTo(method, bucket, n - 1)
         IN  CASE method = "SampleMean" -> FAdd(value, bucket[n])
               [] method = "SampleMin" -> MathMin(value, bucket[n])
               [] method = "SampleMax" -> MathMax(value, bucket[n])

\* samplerMap[method].bucketSampler on a bucket that is not empty
bucketSampler(method, bucket) ==
    LET value == sampleUpTo(method, bucket, Len(bucket))
    IN  IF method = "SampleMean" THEN FDiv(value, F(Len(bucket))) ELSE value

\* addMetricPoint: the index computed from the timestamp
bucketIndex(point, tr) == GoDiv(point.Timestamp - tr.start, tr.resolution)

\* addMetricPoint that keeps one value in a bucket
addMetricPointLastOnly(point, method, tr, buckets) ==
    LET index == bucketIndex(point, tr)
    IN  IF index < 0 \/ index >= Slots(tr) THEN buckets
        ELSE [buckets EXCEPT ![index + 1] = <<fieldSelector(method, point)>>]

\* the buckets after addMetricPoint
addMetricPoint(point, method, tr, buckets) ==
    LET index == bucketIndex(point, tr)
    IN  IF index < 0 \/ index >= Slots(tr) THEN buckets
        ELSE [buckets EXCEPT ![index + 1] = Append(@, fieldSelector(method, point))]

\* the buckets after the first n points
RECURSIVE bucketsUpTo(_, _, _, _)
bucketsUpTo(points, method, tr, n) ==
    IF n = 0 THEN [i \in 1..Slots(tr) |-> <<>>]
    ELSE addMetricPoint(points[n], method, tr, bucketsUpTo(points, method, tr, n - 1))

bucketsFromMetricPoints(points, method, tr) == bucketsUpTo(points, method, tr, Len(points))

processResult(points, tr, method) ==
    LET buckets == bucketsFromMetricPoints(points, method, tr)
    IN  [i \in 1..Slots(tr) |->
            IF Len(buckets[i]) = 0 THEN NaN ELSE bucketSampler(method, buckets[i])]

(***************************************************************************)
(* Package blueflood: FetchSingleSeries and fetch.  An error is nil, a     *)
(* plain error (fmt.Errorf) or an api.BackendError{Metric, Code, Message}. *)
(* What fetch and its goroutine exchange is [response, err].               *)
(***************************************************************************)
NoMetric == [MetricKey |-> "", TagSet |-> NewTagSet]

NilError == [kind |-> "nil", Metric |-> NoMetric, Code |-> "none", Message |-> ""]

\* fmt.Errorf(...)
PlainError(message) ==
    [kind |-> "error", Metric |-> NoMetric, Code |-> "none", Message |-> message]

\* api.BackendError{metric, code, message}
BackendError(metric, code, message) ==
    [kind |-> "BackendError", Metric |-> metric, Code |-> code, Message |-> message]

\* queryResponse{}
NoResponse == <<>>

NoReturn == [response |-> NoResponse, err |-> NilError]

\* the cases of the select statement of fetch
selectCasesWithoutTimeout == {"success", "failure"}

selectCases == {"success", "failure", "timeout"}

\* the cases of the select that can proceed
readyCases ==
    {c \in selectCases :
        \/ c = "success" /\ helperPc = "sendSuccess"
        \/ c = "failure" /\ helperPc = "sendFailure"
        \/ c = "timeout" /\ timerFired}

\* what fetch returns when the select proceeds with case c
selected(c) ==
    CASE c = "success" -> [response |-> helperMsg.response, err |-> NilError]
      [] c = "failure" -> [response |-> NoResponse, err |-> helperMsg.err]
      [] c = "timeout" ->
            [response |-> NoResponse,
             err |-> BackendError(request.Metric, "FetchTimeoutError", "")]

(***************************************************************************)
(* Package query: the fetch limit.  A fetchCounter is [limit, count];      *)
(* NewFetchCounter and Consume follow the description of the per-query     *)
(* admission counter: consume(k) is atomic, it adds k to the count or      *)
(* fails.                                                                  *)
(***************************************************************************)
NewFetchCounter(n) == [limit |-> n, count |-> 0]

\* Consume that counts the series also when it fails
ConsumeCountsFailures(counter, k) ==
    [counter |-> [counter EXCEPT !.count = @ + k], ok |-> counter.count + k <= counter.limit]

\* Consume(k): the counter after the call and the bool it returns
Consume(counter, k) ==
    IF counter.count + k <= counter.limit
    THEN [counter |-> [counter EXCEPT !.count = @ + k], ok |-> TRUE]
    ELSE [counter |-> counter, ok |-> FALSE]

(***************************************************************************)
(* Package query: the expressions of a SELECT.  An api.Predicate is nil or *)
(* a list of key = value matchers that must all hold (api.TruePredicate is *)
(* the empty list, an andPredicate the concatenation).  An expression is a *)
(* fetch, a scalar or a call of a function; a value is a scalar or a       *)
(* series list.  An error is "nil" or its message.  The metadata API and   *)
(* the multi backend are the surroundings: a call of them fails or not.    *)
(***************************************************************************)
NilPredicate == [isNil |-> TRUE, all |-> <<>>]

Predicate(matchers) == [isNil |-> FALSE, all |-> matchers]

TruePredicate == Predicate(<<>>)

\* predicate.Apply(tagSet)
ApplyPredicate(predicate, tagSet) ==
    \A i \in 1..Len(predicate.all) :
        Lookup(tagSet, predicate.all[i].key) = predicate.all[i].value

\* merging that forgets the predicate of the context
mergePredicatesLocalOnly(contextPredicate, exprPredicate) ==
    IF exprPredicate.isNil THEN TruePredicate ELSE exprPredicate

\* the predicate of a fetch: the expression's and the context's
mergePredicates(contextPredicate, exprPredicate) ==
    IF contextPredicate.isNil /\ exprPredicate.isNil THEN TruePredicate
    ELSE IF contextPredicate.isNil THEN exprPredicate
    ELSE IF exprPredicate.isNil THEN contextPredicate
    ELSE Predicate(exprPredicate.all \o contextPredicate.all)

applyPredicates(tagSets, predicate) ==
    SelectSeq(tagSets, LAMBDA ts : ApplyPredicate(predicate, ts))

\* the tag sets the metadata API lists for a metric
GetAllTags(metricName) ==
    IF metricName = "cpu"
    THEN <<[key \in {"dc", "env"} |-> "A"],
           [key \in {"dc", "env"} |-> IF key = "dc" THEN "B" ELSE "A"],
           [key \in {"dc", "env"} |-> IF key = "dc" THEN "A" ELSE "B"]>>
    ELSE <<[key \in {"env"} |-> "A"]>>

ScalarValue5 == 5

NoValue == [kind |-> "none", scalar |-> 0, list |-> NoSeriesList]

ScalarExprValue(x) == [kind |-> "scalar", scalar |-> x, list |-> NoSeriesList]

SeriesListValue(l) == [kind |-> "serieslist", scalar |-> 0, list |-> l]

\* what the multi backend returns for the requested metrics when it does
\* not fail: one series for each
FetchedSeries(metrics) ==
    [Series |-> [i \in 1..Len(metrics) |->
                    [Values |-> <<F(i)>>, TagSet |-> metrics[i].TagSet]],
     Timerange |-> <<>>,
     Name |-> ""]

\* a fetch that goes to the backend before the counter
evaluateFetchNoAdmission(expr, context, counter, tagsFail, fetchFail) ==
    LET predicate == mergePredicates(context.Predicate, expr.predicate)
        filtered == applyPredicates(GetAllTags(expr.metricName), predicate)
        metrics == [i \in 1..Len(filtered) |->
                       [MetricKey |-> expr.metricName, TagSet |-> filtered[i]]]
        consumed == Consume(counter, Len(filtered))
        calls == <<[call |-> "GetAllTags", metricName |-> expr.metricName, k |-> 0,
                    ok |-> ~tagsFail, metrics |-> <<>>],
                   [call |-> "FetchMultipleSeries", metricName |-> expr.metricName, k |-> 0,
                    ok |-> ~fetchFail, metrics |-> metrics],
                   [call |-> "Consume", metricName |-> expr.metricName, k |-> Len(filtered),
                    ok |-> consumed.ok, metrics |-> <<>>]>>
    IN  IF tagsFail
        THEN [value |-> NoValue, err |-> "GetAllTags failed", counter |-> counter,
              calls |-> SubSeq(calls, 1, 1)]
        ELSE IF fetchFail
        THEN [value |-> NoValue, err |-> "FetchMultipleSeries failed", counter |-> counter,
              calls |-> SubSeq(calls, 1, 2)]
        ELSE IF ~consumed.ok
        THEN [value |-> NoValue, err |-> "fetch limit exceeded: too many series to fetch",
              counter |-> consumed.counter, calls |-> calls]
        ELSE [value |-> SeriesListValue([FetchedSeries(metrics) EXCEPT !.Name = expr.metricName]),
              err |-> "nil", counter |-> consumed.counter, calls |-> calls]

\* metricFetchExpression.Evaluate
evaluateFetch(expr, context, counter, tagsFail, fetchFail) ==
    LET predicate == mergePredicates(context.Predicate, expr.predicate)
        filtered == applyPredicates(GetAllTags(expr.metricName), predicate)
        metrics == [i \in 1..Len(filtered) |->
                       [MetricKey |-> expr.metricName, TagSet |-> filtered[i]]]
        consumed == Consume(counter, Len(filtered))
        calls == <<[call |-> "GetAllTags", metricName |-> expr.metricName, k |-> 0,
                    ok |-> ~tagsFail, metrics |-> <<>>],
                   [call |-> "Consume", metricName |-> expr.metricName, k |-> Len(filtered),
                    ok |-> consumed.ok, metrics |-> <<>>],
                   [call |-> "FetchMultipleSeries", metricName |-> expr.metricName, k |-> 0,
                    ok |-> ~fetchFail, metrics |-> metrics]>>
    IN  IF tagsFail
        THEN [value |-> NoValue, err |-> "GetAllTags failed", counter |-> counter,
              calls |-> SubSeq(calls, 1, 1)]
        ELSE IF ~consumed.ok
        THEN [value |-> NoValue, err |-> "fetch limit exceeded: too many series to fetch",
              counter |-> consumed.counter, calls |-> SubSeq(calls, 1, 2)]
        ELSE IF fetchFail
        THEN [value |-> NoValue, err |-> "FetchMultipleSeries failed",
              counter |-> consumed.counter, calls |-> calls]
        ELSE [value |-> SeriesListValue([FetchedSeries(metrics) EXCEPT !.Name = expr.metricName]),
              err |-> "nil", counter |-> consumed.counter, calls |-> calls]

\* expr.Evaluate(context); the registry holds none of the functions called
Evaluate(expr, context, counter, tagsFail, fetchFail) ==
    CASE expr.kind = "scalar" ->
            [value |-> ScalarExprValue(expr.value), err |-> "nil", counter |-> counter,
             calls |-> <<>>]
      [] expr.kind = "function" ->
            [value |-> NoValue, err |-> "no such function", counter |-> counter,
             calls |-> <<>>]
      [] expr.kind = "fetch" -> evaluateFetch(expr, context, counter, tagsFail, fetchFail)

(***************************************************************************)
(* The parallel multi backend: a pool of workers fetches the requests of a *)
(* batch; they share a cancellation token that the first failing worker    *)
(* cancels, and the batch returns all the series or the error that         *)
(* cancelled it.                                                           *)
(***************************************************************************)
NewToken == [cancelled |-> FALSE, by |-> 0, cancels |-> 0]

\* cancelling the token: one-shot, the first caller wins
Cancel(token, i) ==
    IF token.cancelled THEN token
    ELSE [cancelled |-> TRUE, by |-> i, cancels |-> token.cancels + 1]

CancelledError == "cancelled"

\* a batch that returns the error of the first request, in the order of the
\* input, whose worker returned one
batchResultFirstInOrder(state, err, token) ==
    IF \E i \in 1..Len(err) : err[i] # "nil"
    THEN [series |-> <<>>,
          err |-> err[CHOOSE i \in 1..Len(err) :
                          err[i] # "nil" /\ \A j \in 1..(i - 1) : err[j] = "nil"]]
    ELSE [series |-> [i \in 1..Len(state) |-> i], err |-> "nil"]

\* what the batch returns once all its workers have exited
batchResult(state, err, token) ==
    IF token.cancelled
    THEN [series |-> <<>>, err |-> err[token.by]]
    ELSE [series |-> [i \in 1..Len(state) |-> i], err |-> "nil"]

(***************************************************************************)
(* Package query: the commands.  Execute of a command returns a result and *)
(* an error; apiErr is the error of the call of the API ("nil" when it     *)
(* succeeds).  The strings that DESCRIBE returns are kept as the set of    *)
(* the tag sets they serialize.                                            *)
(***************************************************************************)
NoResult == [kind |-> "nil", tags |-> {}, metrics |-> <<>>, values |-> <<>>]

\* the metrics the API knows
GetAllMetrics == <<"cpu", "mem">>

\* the metrics that carry the tag
GetMetricsForTag(tagKey, tagValue) ==
    SelectSeq(GetAllMetrics,
              LAMBDA name : \E i \in 1..Len(GetAllTags(name)) :
                                Lookup(GetAllTags(name)[i], tagKey) = tagValue)

\* DescribeCommand.Execute
DescribeExecute(command, apiErr) ==
    LET listed == IF apiErr = "nil" THEN GetAllTags(command.metricName) ELSE <<>>
        output == {listed[i] : i \in {j \in 1..Len(listed) : ApplyPredicate(command.predicate, listed[j])}}
    IN  [result |-> [NoResult EXCEPT !.kind = "tags", !.tags = output], err |-> "nil"]

\* DescribeAllCommand.Execute
DescribeAllExecute(command, apiErr) ==
    IF apiErr = "nil"
    THEN [result |-> [NoResult EXCEPT !.kind = "metrics", !.metrics = GetAllMetrics], err |-> "nil"]
    ELSE [result |-> NoResult, err |-> apiErr]

\* DescribeMetricsCommand.Execute
DescribeMetricsExecute(command, apiErr) ==
    IF apiErr = "nil"
    THEN [result |-> [NoResult EXCEPT !.kind = "metrics",
                                      !.metrics = GetMetricsForTag(command.tagKey, command.tagValue)],
          err |-> "nil"]
    ELSE [result |-> NoResult, err |-> apiErr]

\* SelectCommand.Execute of a command with one expression
SelectExecuteOne(command, fetchLimit, timerangeErr, tagsFail, fetchFail) ==
    IF timerangeErr # "nil"
    THEN [result |-> NoResult, err |-> timerangeErr]
    ELSE LET r == Evaluate(command.expression, [Predicate |-> command.predicate],
                           NewFetchCounter(fetchLimit), tagsFail, fetchFail)
         IN  IF r.err # "nil"
             THEN [result |-> NoResult, err |-> r.err]
             ELSE [result |-> [NoResult EXCEPT !.kind = "values", !.values = <<r.value>>],
                   err |-> "nil"]

\* the errors the collaborators returned to the SELECT
SelectCollabErrors(command, fetchLimit, timerangeErr, tagsFail, fetchFail) ==
    IF timerangeErr # "nil" THEN <<timerangeErr>>
    ELSE LET r == Evaluate(command.expression, [Predicate |-> command.predicate],
                           NewFetchCounter(fetchLimit), tagsFail, fetchFail)
         IN  IF r.err # "nil" THEN <<r.err>> ELSE <<>>

(***************************************************************************)
(* Package inspect: the profiler.  A profile is identified by the number   *)
(* of the call of Record that made it.                                     *)
(***************************************************************************)
\* New().profiles
NoProfiles == <<>>

NoProfile == [name |-> "", call |-> 0]

\* a mutex that excludes nobody
CanLockAlways(holder) == TRUE

\* p.mutex.Lock() returns only when the mutex is unlocked
CanLock(holder) == holder = 0

(***************************************************************************)
(* The arrays behind the slices.  A []float64 is the address of an array   *)
(* in the heap; a copy of an api.Timeseries shares the array of the        *)
(* original.  The functions of the packages transform and aggregate are    *)
(* run on the arrays the slices of their input point to.                   *)
(***************************************************************************)
\* the series list with the arrays in place of their addresses
heapDeref(l, h) ==
    [l EXCEPT !.Series = [i \in 1..Len(l.Series) |->
                             [Values |-> h[l.Series[i].Values],
                              TagSet |-> l.Series[i].TagSet]]]

\* a result written over the values it is computed from
reuseValues(h, k, vs) == vs

\* make([]float64, n): the k-th array the call makes is a new one
makeFloats(h, k, vs) == Len(h) + k

\* the heap after the vectors are written at the addresses
storeAll(h, addrs, vectors) ==
    [a \in 1..(Len(h) + Len(addrs)) |->
        IF \E i \in 1..Len(addrs) : addrs[i] = a
        THEN vectors[CHOOSE i \in 1..Len(addrs) :
                        addrs[i] = a /\ \A j \in (i + 1)..Len(addrs) : addrs[j] # a]
        ELSE IF a <= Len(h) THEN h[a] ELSE <<>>]

\* ApplyTransform: every transform makes its result
ApplyTransformOnHeap(h, l, t, params) ==
    LET r == ApplyTransform(heapDeref(l, h), t, params)
        n == Len(l.Series)
        addrs == [i \in 1..n |-> makeFloats(h, i, l.Series[i].Values)]
    IN  IF r.err # "nil"
        THEN [heap |-> h, series |-> <<>>, err |-> r.err]
        ELSE [heap |-> storeAll(h, addrs, [i \in 1..n |-> r.list.Series[i].Values]),
              series |-> [i \in 1..n |->
                             [Values |-> addrs[i], TagSet |-> r.list.Series[i].TagSet]],
              err |-> "nil"]

\* groupBy: the members of the groups are copies of the series of the input
\* with new tag sets
groupByOnHeap(h, l, tagList) == groupBy(l, tagList)

\* AggregateBy: applyAggregation makes the values of every result
AggregateByOnHeap(h, l, agg, tagList) ==
    LET gs == groupBy(l, tagList)
        r == AggregateBy(heapDeref(l, h), agg, tagList)
        n == Len(gs)
        addrs == [i \in 1..n |-> makeFloats(h, i, gs[i].List[1].Values)]
    IN  [heap |-> storeAll(h, addrs, [i \in 1..n |-> r.Series[i].Values]),
         series |-> [i \in 1..n |-> [Values |-> addrs[i], TagSet |-> r.Series[i].TagSet]],
         err |-> "nil"]

(***************************************************************************)
(* Bounded inputs.                                                         *)
(***************************************************************************)
RECURSIVE SeqsUpTo(_, _)
\* the sequences over S of length at most n
SeqsUpTo(S, n) ==
    IF n = 0 THEN {<<>>}
    ELSE LET shorter == SeqsUpTo(S, n - 1)
         IN  shorter \cup {Append(s, x) : s \in {t \in shorter : Len(t) = n - 1}, x \in S}

\* the tag sets over the keys K with values in V
TagSetsOver(K, V) == UNION {[D -> V] : D \in SUBSET K}

TrIdle == values = <<>> /\ scale = Zero /\ result = <<>> /\ op = "idle"

AggIdle ==
    /\ list = [Series |-> <<>>, Timerange |-> <<>>, Name |-> ""]
    /\ tags = <<>>
    /\ groups = <<>>
    /\ aggregator = "none"
    /\ aggResult = [Series |-> <<>>, Timerange |-> <<>>, Name |-> ""]
    /\ aggPanic = FALSE
    /\ aggOp = "idle"

RedIdle == array = <<>> /\ reduced = Zero /\ reducer = "idle"

RuleIdle ==
    /\ rule = <<>>
    /\ input = <<>>
    /\ matchRes = <<>>
    /\ tm = <<>>
    /\ reversed = <<>>
    /\ ruleOp = "idle"

ApIdle ==
    /\ apList = NoSeriesList
    /\ apTransform = NoTransform
    /\ apParameters = <<>>
    /\ apResult = NoSeriesList
    /\ apErr = "nil"
    /\ apOp = "idle"

JoinIdle ==
    /\ joinLeft = NoSeriesList
    /\ joinRight = NoSeriesList
    /\ joinFun = "none"
    /\ joinResult = NoSeriesList
    /\ joinOp = "idle"

BkIdle ==
    /\ bkTimerange = [start |-> 0, end |-> 0, resolution |-> 1]
    /\ bkPoints = <<>>
    /\ bkSample = "none"
    /\ bkBuckets = <<>>
    /\ bkValues = <<>>
    /\ bkOp = "idle"

FetchIdle ==
    /\ request = <<>>
    /\ fsPc = "idle"
    /\ helperPc = "idle"
    /\ helperMsg = NoReturn
    /\ timerFired = FALSE
    /\ fetchRet = NoReturn
    /\ fsRet = [series |-> NoTimeseries, err |-> NilError]

FcIdle == counters = <<>> /\ fcLast = [call |-> "idle", c |-> 0, k |-> 0, ok |-> FALSE, before |-> <<>>]

EvIdle ==
    /\ evContext = <<>>
    /\ evExprs = <<>>
    /\ evCounter = NewFetchCounter(0)
    /\ evIndex = 0
    /\ evResults = <<>>
    /\ evCalls = <<>>
    /\ evRet = [results |-> <<>>, err |-> "nil"]
    /\ evPc = "idle"

MfIdle ==
    /\ mfParallelism = 0
    /\ mfState = <<>>
    /\ mfErr = <<>>
    /\ mfToken = NewToken
    /\ mfRet = [series |-> <<>>, err |-> "nil"]
    /\ mfPc = "idle"

CmdIdle ==
    /\ cmd = <<>>
    /\ cmdMetric = FALSE
    /\ cmdCollab = <<>>
    /\ cmdLatency = <<>>
    /\ cmdRet = [result |-> NoResult, err |-> "nil"]
    /\ cmdPc = "idle"

PrIdle ==
    /\ profiles = NoProfiles
    /\ mutex = 0
    /\ prPc = <<>>
    /\ prProfile = <<>>
    /\ prLocal = <<>>
    /\ prCalls = 0
    /\ prCompleted = {}
    /\ prAll = <<>>
    /\ prFlushed = <<>>

HpIdle ==
    /\ heap = <<>>
    /\ hpList = NoSeriesList
    /\ hpBefore = [heap |-> <<>>, list |-> NoSeriesList]
    /\ hpRet = <<>>
    /\ hpGroups = <<>>
    /\ hpOp = "idle"

(***************************************************************************)
(* SpecTransform: the transforms on one vector.                            *)
(***************************************************************************)
MaxLen == 3

FloatVals == {NaN, PosInf, NegInf, F(-1), F(0), F(2)}

\* resolution / 1000 for resolutions of 500 ms and 30 s
Scales == {Fin(1, 2), F(30)}

TrInit ==
    /\ values \in SeqsUpTo(FloatVals, MaxLen)
    /\ scale \in Scales
    /\ result = <<>>
    /\ op = "none"

\* Derivative on the input vector, or on what Integral returned for it
\* (the expression derivative(integral(x)))
DoDerivative ==
    /\ op \in {"none", "Integral"}
    /\ result' = Derivative(IF op = "none" THEN values ELSE result, scale)
    /\ op' = (IF op = "none" THEN "Derivative" ELSE "DerivativeOfIntegral")
    /\ UNCHANGED <<values, scale, aggVars, redVars, ruleVars, apVars, joinVars, bkVars, fetchVars, fcVars, evVars, mfVars, cmdVars, prVars, hpVars>>

DoIntegral ==
    /\ op = "none"
    /\ result' = Integral(values, scale)
    /\ op' = "Integral"
    /\ UNCHANGED <<values, scale, aggVars, redVars, ruleVars, apVars, joinVars, bkVars, fetchVars, fcVars, evVars, mfVars, cmdVars, prVars, hpVars>>

DoCumulative ==
    /\ op = "none"
    /\ result' = Cumulative(values, scale)
    /\ op' = "Cumulative"
    /\ UNCHANGED <<values, scale, aggVars, redVars, ruleVars, apVars, joinVars, bkVars, fetchVars, fcVars, evVars, mfVars, cmdVars, prVars, hpVars>>

DoNaNKeepLast ==
    /\ op = "none"
    /\ result' = NaNKeepLast(values, scale)
    /\ op' = "NaNKeepLast"
    /\ UNCHANGED <<values, scale, aggVars, redVars, ruleVars, apVars, joinVars, bkVars, fetchVars, fcVars, evVars, mfVars, cmdVars, prVars, hpVars>>

DoRate ==
    /\ op = "none"
    /\ result' = Rate(values, scale)
    /\ op' = "Rate"
    /\ UNCHANGED <<values, scale, aggVars, redVars, ruleVars, apVars, joinVars, bkVars, fetchVars, fcVars, evVars, mfVars, cmdVars, prVars, hpVars>>

InitTransform == TrInit /\ AggIdle /\ RedIdle /\ RuleIdle /\ ApIdle /\ JoinIdle /\ BkIdle /\ FetchIdle /\ FcIdle /\ EvIdle /\ MfIdle /\ CmdIdle /\ PrIdle /\ HpIdle

NextTransform ==
    \/ DoDerivative
    \/ DoRate
    \/ DoIntegral
    \/ DoCumulative
    \/ DoNaNKeepLast

SpecTransform == InitTransform /\ [][NextTransform]_vars

(***************************************************************************)
(* SpecReduce: the reducers on one slice.                                  *)
(***************************************************************************)
MaxArray == 3

RedInit ==
    /\ array \in SeqsUpTo(FloatVals, MaxArray)
    /\ reduced = Zero
    /\ reducer = "none"

DoReduce ==
    /\ reducer = "none"
    /\ \E agg \in Aggregators :
        /\ reduced' = Aggregate(agg, array)
        /\ reducer' = agg
    /\ UNCHANGED <<array, trVars, aggVars, ruleVars, apVars, joinVars, bkVars, fetchVars, fcVars, evVars, mfVars, cmdVars, prVars, hpVars>>

InitReduce == RedInit /\ TrIdle /\ AggIdle /\ RuleIdle /\ ApIdle /\ JoinIdle /\ BkIdle /\ FetchIdle /\ FcIdle /\ EvIdle /\ MfIdle /\ CmdIdle /\ PrIdle /\ HpIdle

NextReduce == DoReduce

SpecReduce == InitReduce /\ [][NextReduce]_vars

(***************************************************************************)
(* SpecGroup: groupBy on lists whose series differ in their tag sets.      *)
(***************************************************************************)
MaxGroupSeries == 3

\* dc is absent, "A" or "B"; env is absent or "A"
GroupTagSets == {ts \in TagSetsOver({"dc", "env"}, {"A", "B"}) : Lookup(ts, "env") # "B"}

GroupSeries == [Values : {<<F(1)>>, <<F(2)>>}, TagSet : GroupTagSets]

\* lists of tags: empty, one tag, two tags, a repeated tag, a tag no series has
TagLists ==
    {<<>>, <<"dc">>, <<"env">>, <<"dc", "env">>, <<"env", "dc">>, <<"dc", "dc">>, <<"host">>}

Timeranges == {[start |-> 0, end |-> 60000, resolution |-> 30000]}

GroupInit ==
    /\ list \in [Series : SeqsUpTo(GroupSeries, MaxGroupSeries),
                 Timerange : Timeranges,
                 Name : {"Test.List"}]
    /\ tags = <<>>
    /\ groups = <<>>
    /\ aggregator = "none"
    /\ aggResult = [Series |-> <<>>, Timerange |-> <<>>, Name |-> ""]
    /\ aggPanic = FALSE
    /\ aggOp = "none"

DoGroupBy ==
    /\ aggOp = "none"
    /\ \E tagList \in TagLists :
        /\ tags' = tagList
        /\ groups' = groupBy(list, tagList)
    /\ aggOp' = "groupBy"
    /\ UNCHANGED <<list, aggregator, aggResult, aggPanic, trVars, redVars, ruleVars, apVars, joinVars, bkVars, fetchVars, fcVars, evVars, mfVars, cmdVars, prVars, hpVars>>

InitGroup == GroupInit /\ TrIdle /\ RedIdle /\ RuleIdle /\ ApIdle /\ JoinIdle /\ BkIdle /\ FetchIdle /\ FcIdle /\ EvIdle /\ MfIdle /\ CmdIdle /\ PrIdle /\ HpIdle

NextGroup == DoGroupBy

SpecGroup == InitGroup /\ [][NextGroup]_vars

(***************************************************************************)
(* SpecAgg: AggregateBy on lists of series of two slots.                   *)
(***************************************************************************)
MaxAggSeries == 2

AggVals == {NaN, F(1), F(3)}

AggSeries ==
    [Values : {<<a, b>> : a \in AggVals, b \in AggVals},
     TagSet : [{"dc"} -> {"A", "B"}]]

AggTagLists == {<<>>, <<"dc">>, <<"env">>}

\* the Timerange and the Name of the list
AggHeaders ==
    {<<[start |-> 0, end |-> 30000, resolution |-> 30000], "Test.List">>,
     <<[start |-> 42, end |-> 48, resolution |-> 6], "other">>}

AggInit ==
    /\ \E ss \in SeqsUpTo(AggSeries, MaxAggSeries), h \in AggHeaders :
        list = [Series |-> ss, Timerange |-> h[1], Name |-> h[2]]
    /\ tags = <<>>
    /\ groups = <<>>
    /\ aggregator = "none"
    /\ aggResult = [Series |-> <<>>, Timerange |-> <<>>, Name |-> ""]
    /\ aggPanic = FALSE
    /\ aggOp = "none"

DoAggregateBy ==
    /\ aggOp = "none"
    /\ \E tagList \in AggTagLists, agg \in Aggregators :
        /\ tags' = tagList
        /\ aggregator' = agg
        /\ LET gs == groupBy(list, tagList)
           IN  /\ groups' = gs
               /\ IF \E i \in 1..Len(gs) : aggregationPanics(gs[i])
                  THEN aggPanic' = TRUE /\ aggResult' = aggResult
                  ELSE aggPanic' = FALSE /\ aggResult' = AggregateBy(list, agg, tagList)
    /\ aggOp' = "AggregateBy"
    /\ UNCHANGED <<list, trVars, redVars, ruleVars, apVars, joinVars, bkVars, fetchVars, fcVars, evVars, mfVars, cmdVars, prVars, hpVars>>

InitAgg == AggInit /\ TrIdle /\ RedIdle /\ RuleIdle /\ ApIdle /\ JoinIdle /\ BkIdle /\ FetchIdle /\ FcIdle /\ EvIdle /\ MfIdle /\ CmdIdle /\ PrIdle /\ HpIdle

NextAgg == DoAggregateBy

SpecAgg == InitAgg /\ [][NextAgg]_vars

(***************************************************************************)
(* SpecRule: one compiled rule, a name matched against it and a tagged     *)
(* metric converted back.                                                  *)
(***************************************************************************)
MaxPatternTokens == 3

MaxKeyTokens == 3

MaxNameLen == 4

\* what the patterns are made of: one-character literals and two tags
PatternTokens == {<<"a">>, <<".">>, <<"%", "f", "%">>, <<"%", "b", "%">>}

\* what the metric key patterns are made of
KeyTokens == {<<"a">>, <<"%", "f", "%">>, <<"%", "b", "%">>}

\* a metric key pattern with a "." before its tag, as "test-metric.%bar%"
DottedKeys == {<<"a", ".", "%", "b", "%">>}

RawPatterns(tokens, n) == {Concat(ts) : ts \in SeqsUpTo(tokens, n)}

\* no custom regex, or one that lets the tag f run over "."
Regexes == {NewTagSet, [t \in {<<"f">>} |-> Chars]}

RawRules ==
    [Pattern : RawPatterns(PatternTokens, MaxPatternTokens),
     MetricKeyPattern : RawPatterns(KeyTokens, MaxKeyTokens) \cup DottedKeys,
     Regex : Regexes]

CompiledRules == {Compile(raw).rule : raw \in {x \in RawRules : Compile(x).err = "nil"}}

Names == SeqsUpTo(Chars, MaxNameLen)

\* what is appended to a metric key to make one the rule did not produce
KeySuffixes == {<<>>, <<"a">>}

RuleInit ==
    /\ rule \in CompiledRules
    /\ input = <<>>
    /\ matchRes = NotMatched
    /\ tm = [MetricKey |-> <<>>, TagSet |-> NewTagSet]
    /\ reversed = [name |-> <<>>, err |-> "nil"]
    /\ ruleOp = "none"

DoMatchRule ==
    /\ ruleOp = "none"
    /\ \E name \in Names :
        /\ input' = name
        /\ matchRes' = MatchRule(rule, name)
    /\ ruleOp' = "MatchRule"
    /\ UNCHANGED <<rule, tm, reversed, trVars, aggVars, redVars, apVars, joinVars, bkVars, fetchVars, fcVars, evVars, mfVars, cmdVars, prVars, hpVars>>

\* the rule tester's reverse of a match, and the reverse of a metric that
\* lost tags or carries another key
DoToGraphiteName ==
    /\ ruleOp = "MatchRule"
    /\ matchRes.matched
    /\ \E keep \in SUBSET DOMAIN matchRes.TagSet, suffix \in KeySuffixes :
        LET metric == [MetricKey |-> matchRes.MetricKey \o suffix,
                       TagSet |-> [t \in keep |-> matchRes.TagSet[t]]]
        IN  /\ tm' = metric
            /\ reversed' = ToGraphiteName(rule, metric)
    /\ ruleOp' = "ToGraphiteName"
    /\ UNCHANGED <<rule, input, matchRes, trVars, aggVars, redVars, apVars, joinVars, bkVars, fetchVars, fcVars, evVars, mfVars, cmdVars, prVars, hpVars>>

InitRule == RuleInit /\ TrIdle /\ AggIdle /\ RedIdle /\ ApIdle /\ JoinIdle /\ BkIdle /\ FetchIdle /\ FcIdle /\ EvIdle /\ MfIdle /\ CmdIdle /\ PrIdle /\ HpIdle

NextRule ==
    \/ DoMatchRule
    \/ DoToGraphiteName

SpecRule == InitRule /\ [][NextRule]_vars

(***************************************************************************)
(* SpecApply: ApplyTransform on lists of series of different lengths.      *)
(***************************************************************************)
MaxApplySeries == 2

ApplySeries ==
    [Values : {<<>>, <<NaN>>, <<F(2), NaN>>},
     TagSet : TagSetsOver({"dc"}, {"A"}) \cup {[key \in {"dc", "env"} |-> "B"]}]

ApplyParameters == {<<>>, <<ScalarValue(F(17))>>, <<StringValue>>}

ApInit ==
    /\ \E ss \in SeqsUpTo(ApplySeries, MaxApplySeries), h \in AggHeaders :
        apList = [Series |-> ss, Timerange |-> h[1], Name |-> h[2]]
    /\ apTransform = NoTransform
    /\ apParameters = <<>>
    /\ apResult = NoSeriesList
    /\ apErr = "nil"
    /\ apOp = "none"

DoApplyTransform ==
    /\ apOp = "none"
    /\ \E t \in Transforms, params \in ApplyParameters :
        LET r == ApplyTransform(apList, t, params)
        IN  /\ apTransform' = t
            /\ apParameters' = params
            /\ apResult' = r.list
            /\ apErr' = r.err
    /\ apOp' = "ApplyTransform"
    /\ UNCHANGED <<apList, trVars, aggVars, redVars, ruleVars, joinVars, bkVars, fetchVars, fcVars, evVars, mfVars, cmdVars, prVars, hpVars>>

InitApply == ApInit /\ TrIdle /\ AggIdle /\ RedIdle /\ RuleIdle /\ JoinIdle /\ BkIdle /\ FetchIdle /\ FcIdle /\ EvIdle /\ MfIdle /\ CmdIdle /\ PrIdle /\ HpIdle

NextApply == DoApplyTransform

SpecApply == InitApply /\ [][NextApply]_vars

(***************************************************************************)
(* SpecJoin: a binary operator on two lists over one timerange.             *)
(***************************************************************************)
MaxJoinSeries == 2

JoinLeftSeries ==
    [Values : {<<F(1), F(2)>>, <<F(2), NaN>>},
     TagSet : {NewTagSet,
               [key \in {"env"} |-> "A"],
               [key \in {"env", "host"} |-> "A"],
               [key \in {"env", "host"} |-> IF key = "env" THEN "B" ELSE "A"]}]

JoinRightSeries ==
    [Values : {<<F(3), F(-1)>>},
     TagSet : {NewTagSet, [key \in {"env"} |-> "A"], [key \in {"env"} |-> "B"]}]

JoinInit ==
    /\ joinLeft \in [Series : SeqsUpTo(JoinLeftSeries, MaxJoinSeries),
                      Timerange : Timeranges, Name : {""}]
    /\ joinRight \in [Series : SeqsUpTo(JoinRightSeries, MaxJoinSeries),
                       Timerange : Timeranges, Name : {""}]
    /\ joinFun = "none"
    /\ joinResult = NoSeriesList
    /\ joinOp = "none"

DoJoin ==
    /\ joinOp = "none"
    /\ \E f \in Operators :
        /\ joinFun' = f
        /\ joinResult' = evaluateBinaryOperation(f, joinLeft, joinRight)
    /\ joinOp' = "join"
    /\ UNCHANGED <<joinLeft, joinRight, trVars, aggVars, redVars, ruleVars, apVars, bkVars, fetchVars, fcVars, evVars, mfVars, cmdVars, prVars, hpVars>>

InitJoin == JoinInit /\ TrIdle /\ AggIdle /\ RedIdle /\ RuleIdle /\ ApIdle /\ BkIdle /\ FetchIdle /\ FcIdle /\ EvIdle /\ MfIdle /\ CmdIdle /\ PrIdle /\ HpIdle

NextJoin == DoJoin

SpecJoin == InitJoin /\ [][NextJoin]_vars

(***************************************************************************)
(* SpecBucket: processResult on the points of one response.  The           *)
(* timestamps lie before the start (by less and by more than one           *)
(* resolution), in each of the three slots and after the last slot.        *)
(***************************************************************************)
MaxPoints == 2

BucketTimeranges == {[start |-> 60, end |-> 120, resolution |-> 30]}

Timestamps == {29, 59, 60, 95, 119, 120, 150}

MetricPoints ==
    {[Timestamp |-> t, Average |-> F(v[1]), Min |-> F(v[2]), Max |-> F(v[3])] :
        t \in Timestamps, v \in {<<2, 1, 4>>, <<-1, -3, 0>>}}

BkInit ==
    /\ bkTimerange \in BucketTimeranges
    /\ bkPoints \in SeqsUpTo(MetricPoints, MaxPoints)
    /\ bkSample \in SampleMethods
    /\ bkBuckets = <<>>
    /\ bkValues = <<>>
    /\ bkOp = "none"

DoProcessResult ==
    /\ bkOp = "none"
    /\ bkBuckets' = bucketsFromMetricPoints(bkPoints, bkSample, bkTimerange)
    /\ bkValues' = processResult(bkPoints, bkTimerange, bkSample)
    /\ bkOp' = "processResult"
    /\ UNCHANGED <<bkTimerange, bkPoints, bkSample,
                   trVars, aggVars, redVars, ruleVars, apVars, joinVars, fetchVars, fcVars, evVars, mfVars, cmdVars, prVars, hpVars>>

InitBucket == BkInit /\ TrIdle /\ AggIdle /\ RedIdle /\ RuleIdle /\ ApIdle /\ JoinIdle /\ FetchIdle /\ FcIdle /\ EvIdle /\ MfIdle /\ CmdIdle /\ PrIdle /\ HpIdle

NextBucket == DoProcessResult

SpecBucket == InitBucket /\ [][NextBucket]_vars

(***************************************************************************)
(* SpecFetch: one call of FetchSingleSeries.  The caller runs the sampler  *)
(* lookup, constructURL, fetch (which starts a goroutine and a timer and   *)
(* waits in a select) and processResult; the goroutine runs the GET, the   *)
(* read of the body and the JSON decoding, each of which can fail, and     *)
(* then sends on success or failure.  Both channels are unbuffered: a send *)
(* completes together with the receive of the select.                      *)
(***************************************************************************)
FetchMetrics ==
    {[MetricKey |-> "cpu", TagSet |-> [key \in {"dc"} |-> "A"]],
     [MetricKey |-> "mem", TagSet |-> NewTagSet]}

\* the sample methods of a request: those of samplerMap and one more
RequestSampleMethods == SampleMethods \cup {"SampleOther"}

FetchRequests ==
    [Metric : FetchMetrics, SampleMethod : RequestSampleMethods, Timerange : BucketTimeranges]

\* the points of the decoded responses
FetchResponses ==
    {<<>>, <<[Timestamp |-> 60, Average |-> F(2), Min |-> F(1), Max |-> F(4)]>>}

FetchInit ==
    /\ request \in FetchRequests
    /\ fsPc = "FetchSingleSeries"
    /\ helperPc = "idle"
    /\ helperMsg = NoReturn
    /\ timerFired = FALSE
    /\ fetchRet = NoReturn
    /\ fsRet = [series |-> NoTimeseries, err |-> NilError]

\* samplerMap[request.SampleMethod]
LookupSampler ==
    /\ fsPc = "FetchSingleSeries"
    /\ IF request.SampleMethod \in SampleMethods
       THEN fsPc' = "constructURL" /\ fsRet' = fsRet
       ELSE /\ fsPc' = "returned"
            /\ fsRet' = [series |-> NoTimeseries, err |-> PlainError("unsupported SampleMethod")]
    /\ UNCHANGED <<request, helperPc, helperMsg, timerFired, fetchRet,
                   trVars, aggVars, redVars, ruleVars, apVars, joinVars, bkVars, fcVars, evVars, mfVars, cmdVars, prVars, hpVars>>

\* constructURL: ToGraphiteName or url.Parse fails, or the URL is built
ConstructURL ==
    /\ fsPc = "constructURL"
    /\ \E outcome \in {"cannot convert to graphite name", "cannot generate URL", "ok"} :
        IF outcome = "ok"
        THEN fsPc' = "fetch" /\ fsRet' = fsRet
        ELSE /\ fsPc' = "returned"
             /\ fsRet' = [series |-> NoTimeseries,
                          err |-> BackendError(request.Metric, "InvalidSeriesError", outcome)]
    /\ UNCHANGED <<request, helperPc, helperMsg, timerFired, fetchRet,
                   trVars, aggVars, redVars, ruleVars, apVars, joinVars, bkVars, fcVars, evVars, mfVars, cmdVars, prVars, hpVars>>

\* fetch up to its select: the channels, the timer and the goroutine
StartFetch ==
    /\ fsPc = "fetch"
    /\ fsPc' = "select"
    /\ helperPc' = "Get"
    /\ UNCHANGED <<request, helperMsg, timerFired, fetchRet, fsRet,
                   trVars, aggVars, redVars, ruleVars, apVars, joinVars, bkVars, fcVars, evVars, mfVars, cmdVars, prVars, hpVars>>

\* the goroutine: b.client.Get, ioutil.ReadAll, json.Unmarshal
HelperStep ==
    /\ helperPc \in {"Get", "ReadAll", "Unmarshal"}
    /\ \E failed \in BOOLEAN, response \in FetchResponses :
        IF failed
        THEN /\ helperPc' = "sendFailure"
             /\ helperMsg' =
                  [response |-> NoResponse,
                   err |-> BackendError(request.Metric, "FetchIOError",
                              CASE helperPc = "Get" -> "error while fetching - http connection"
                                [] helperPc = "ReadAll" -> "error while fetching - reading"
                                [] helperPc = "Unmarshal" -> "error while fetching - json decoding")]
        ELSE IF helperPc = "Unmarshal"
             THEN helperPc' = "sendSuccess"
                  /\ helperMsg' = [response |-> response, err |-> NilError]
             ELSE helperPc' = (IF helperPc = "Get" THEN "ReadAll" ELSE "Unmarshal")
                  /\ helperMsg' = helperMsg
    /\ UNCHANGED <<request, fsPc, timerFired, fetchRet, fsRet,
                   trVars, aggVars, redVars, ruleVars, apVars, joinVars, bkVars, fcVars, evVars, mfVars, cmdVars, prVars, hpVars>>

\* the caller reaches the select: it proceeds with one of the ready cases
\* or waits
Select ==
    /\ fsPc = "select"
    /\ IF readyCases = {}
       THEN fsPc' = "waiting" /\ UNCHANGED <<helperPc, fetchRet>>
       ELSE \E c \in readyCases :
               /\ fetchRet' = selected(c)
               /\ fsPc' = "fetched"
               /\ helperPc' = (IF c = "timeout" THEN helperPc ELSE "done")
    /\ UNCHANGED <<request, helperMsg, timerFired, fsRet,
                   trVars, aggVars, redVars, ruleVars, apVars, joinVars, bkVars, fcVars, evVars, mfVars, cmdVars, prVars, hpVars>>

\* the goroutine sends to the caller waiting in the select
HelperSend ==
    /\ fsPc = "waiting"
    /\ helperPc \in {"sendSuccess", "sendFailure"}
    /\ \E c \in readyCases :
        /\ c # "timeout"
        /\ fetchRet' = selected(c)
    /\ fsPc' = "fetched"
    /\ helperPc' = "done"
    /\ UNCHANGED <<request, helperMsg, timerFired, fsRet,
                   trVars, aggVars, redVars, ruleVars, apVars, joinVars, bkVars, fcVars, evVars, mfVars, cmdVars, prVars, hpVars>>

\* the timer of time.After(b.config.Timeout) fires; a caller waiting in the
\* select proceeds with the timeout case
TimerFires ==
    /\ fsPc \in {"select", "waiting"}
    /\ ~timerFired
    /\ timerFired' = TRUE
    /\ IF fsPc = "waiting" /\ "timeout" \in selectCases
       THEN fsPc' = "fetched" /\ fetchRet' = selected("timeout")
       ELSE UNCHANGED <<fsPc, fetchRet>>
    /\ UNCHANGED <<request, helperPc, helperMsg, fsRet,
                   trVars, aggVars, redVars, ruleVars, apVars, joinVars, bkVars, fcVars, evVars, mfVars, cmdVars, prVars, hpVars>>

\* FetchSingleSeries after fetch: the error of fetch, or processResult
FinishFetch ==
    /\ fsPc = "fetched"
    /\ fsPc' = "returned"
    /\ fsRet' =
         IF fetchRet.err # NilError
         THEN [series |-> NoTimeseries, err |-> fetchRet.err]
         ELSE [series |-> [Values |-> processResult(fetchRet.response, request.Timerange,
                                                    request.SampleMethod),
                           TagSet |-> request.Metric.TagSet],
               err |-> NilError]
    /\ UNCHANGED <<request, helperPc, helperMsg, timerFired, fetchRet,
                   trVars, aggVars, redVars, ruleVars, apVars, joinVars, bkVars, fcVars, evVars, mfVars, cmdVars, prVars, hpVars>>

InitFetch == FetchInit /\ TrIdle /\ AggIdle /\ RedIdle /\ RuleIdle /\ ApIdle /\ JoinIdle /\ BkIdle /\ FcIdle /\ EvIdle /\ MfIdle /\ CmdIdle /\ PrIdle /\ HpIdle

NextFetch ==
    \/ LookupSampler
    \/ ConstructURL
    \/ StartFetch
    \/ HelperStep
    \/ Select
    \/ HelperSend
    \/ TimerFires
    \/ FinishFetch

SpecFetch == InitFetch /\ [][NextFetch]_vars

\* the caller runs and the timer fires; the HTTP request of the goroutine
\* may never come back
SpecFetchLive ==
    /\ SpecFetch
    /\ WF_vars(LookupSampler)
    /\ WF_vars(ConstructURL)
    /\ WF_vars(StartFetch)
    /\ WF_vars(Select)
    /\ WF_vars(TimerFires)
    /\ WF_vars(FinishFetch)

\* the caller runs, the timer fires, and the goroutine runs too: its HTTP
\* request comes back, and it sends whenever the caller is receiving
SpecFetchHelperLive ==
    /\ SpecFetchLive
    /\ WF_vars(HelperStep)
    /\ WF_vars(HelperSend)

(***************************************************************************)
(* SpecCounter: SELECT executions, each with the fetchCounter it creates,  *)
(* and Consume calls on these counters in any order.                       *)
(***************************************************************************)
MaxSelects == 2

\* context.FetchLimit
FetchLimits == {1, 3}

\* len(filtered)
ConsumeSizes == {0, 1, 2}

FcInit ==
    /\ counters = <<>>
    /\ fcLast = [call |-> "none", c |-> 0, k |-> 0, ok |-> FALSE, before |-> <<>>]

\* SelectCommand.Execute: FetchLimit: NewFetchCounter(context.FetchLimit)
ExecuteSelect ==
    /\ Len(counters) < MaxSelects
    /\ \E n \in FetchLimits :
        /\ counters' = Append(counters, NewFetchCounter(n))
        /\ fcLast' = [call |-> "NewFetchCounter", c |-> Len(counters) + 1, k |-> 0,
                      ok |-> TRUE, before |-> counters]
    /\ UNCHANGED <<trVars, aggVars, redVars, ruleVars, apVars, joinVars, bkVars, fetchVars, evVars, mfVars, cmdVars, prVars, hpVars>>

\* context.FetchLimit.Consume(len(filtered)) of a fetch expression of
\* execution c
DoConsume ==
    /\ \E c \in 1..Len(counters), k \in ConsumeSizes :
        LET r == Consume(counters[c], k)
        IN  /\ counters' = [counters EXCEPT ![c] = r.counter]
            /\ fcLast' = [call |-> "Consume", c |-> c, k |-> k, ok |-> r.ok,
                          before |-> counters]
    /\ UNCHANGED <<trVars, aggVars, redVars, ruleVars, apVars, joinVars, bkVars, fetchVars, evVars, mfVars, cmdVars, prVars, hpVars>>

InitCounter == FcInit /\ TrIdle /\ AggIdle /\ RedIdle /\ RuleIdle /\ ApIdle /\ JoinIdle /\ BkIdle /\ FetchIdle /\ EvIdle /\ MfIdle /\ CmdIdle /\ PrIdle /\ HpIdle

NextCounter ==
    \/ ExecuteSelect
    \/ DoConsume

SpecCounter == InitCounter /\ [][NextCounter]_vars

(***************************************************************************)
(* SpecSelect: one execution of a SELECT: SelectCommand.Execute creates    *)
(* the counter and evaluateExpressions evaluates the expressions in order, *)
(* one action for each.                                                    *)
(***************************************************************************)
MaxExprs == 2

SelectPredicates == {NilPredicate, Predicate(<<[key |-> "dc", value |-> "A"]>>)}

FetchPredicates == {NilPredicate, Predicate(<<[key |-> "env", value |-> "A"]>>)}

Expressions ==
    [kind : {"fetch"}, metricName : {"cpu", "mem"}, predicate : FetchPredicates, value : {0}]
        \cup [kind : {"scalar"}, metricName : {""}, predicate : {NilPredicate},
               value : {ScalarValue5}]
        \cup [kind : {"function"}, metricName : {"nosuch"}, predicate : {NilPredicate},
               value : {0}]

SelectFetchLimits == {2, 4}

EvInit ==
    /\ evContext \in [Predicate : SelectPredicates, FetchLimit : SelectFetchLimits]
    /\ evExprs \in SeqsUpTo(Expressions, MaxExprs)
    /\ evCounter = NewFetchCounter(0)
    /\ evIndex = 0
    /\ evResults = <<>>
    /\ evCalls = <<>>
    /\ evRet = [results |-> <<>>, err |-> "nil"]
    /\ evPc = "Execute"

\* SelectCommand.Execute up to the loop of evaluateExpressions: the snapped
\* timerange, which can fail, and the new counter
SelectExecute ==
    /\ evPc = "Execute"
    /\ \E timerangeFails \in BOOLEAN :
        IF timerangeFails
        THEN /\ evPc' = "returned"
             /\ evRet' = [results |-> <<>>, err |-> "invalid timerange"]
             /\ evCounter' = evCounter
        ELSE /\ evCounter' = NewFetchCounter(evContext.FetchLimit)
             /\ IF Len(evExprs) = 0
                THEN evPc' = "returned" /\ evRet' = [results |-> <<>>, err |-> "nil"]
                ELSE evPc' = "evaluating" /\ evRet' = evRet
    /\ UNCHANGED <<evContext, evExprs, evIndex, evResults, evCalls, trVars, aggVars, redVars, ruleVars, apVars, joinVars, bkVars, fetchVars, fcVars, mfVars, cmdVars, prVars, hpVars>>

\* a loop that records no value for an expression that failed and goes on
EvaluateExpressionKeepGoing ==
    /\ evPc = "evaluating"
    /\ \E tagsFail \in BOOLEAN, fetchFail \in BOOLEAN :
        LET r == Evaluate(evExprs[evIndex + 1], evContext, evCounter, tagsFail, fetchFail)
        IN  /\ evCounter' = r.counter
            /\ evCalls' = evCalls \o r.calls
            /\ evIndex' = evIndex + 1
            /\ evResults' = Append(evResults, r.value)
            /\ IF evIndex + 1 = Len(evExprs)
               THEN /\ evRet' = [results |-> Append(evResults, r.value), err |-> r.err]
                    /\ evPc' = "returned"
               ELSE UNCHANGED <<evRet, evPc>>
    /\ UNCHANGED <<evContext, evExprs, trVars, aggVars, redVars, ruleVars, apVars, joinVars, bkVars, fetchVars, fcVars, mfVars, cmdVars, prVars, hpVars>>

\* one iteration of the loop of evaluateExpressions
EvaluateExpression ==
    /\ evPc = "evaluating"
    /\ \E tagsFail \in BOOLEAN, fetchFail \in BOOLEAN :
        LET r == Evaluate(evExprs[evIndex + 1], evContext, evCounter, tagsFail, fetchFail)
        IN  /\ evCounter' = r.counter
            /\ evCalls' = evCalls \o r.calls
            /\ IF r.err # "nil"
               THEN /\ evRet' = [results |-> <<>>, err |-> r.err]
                    /\ evPc' = "returned"
                    /\ UNCHANGED <<evIndex, evResults>>
               ELSE /\ evIndex' = evIndex + 1
                    /\ evResults' = Append(evResults, r.value)
                    /\ IF evIndex + 1 = Len(evExprs)
                       THEN /\ evRet' = [results |-> Append(evResults, r.value), err |-> "nil"]
                            /\ evPc' = "returned"
                       ELSE UNCHANGED <<evRet, evPc>>
    /\ UNCHANGED <<evContext, evExprs, trVars, aggVars, redVars, ruleVars, apVars, joinVars, bkVars, fetchVars, fcVars, mfVars, cmdVars, prVars, hpVars>>

InitSelect == EvInit /\ TrIdle /\ AggIdle /\ RedIdle /\ RuleIdle /\ ApIdle /\ JoinIdle /\ BkIdle /\ FetchIdle /\ FcIdle /\ MfIdle /\ CmdIdle /\ PrIdle /\ HpIdle

NextSelect ==
    \/ SelectExecute
    \/ EvaluateExpression

SpecSelect == InitSelect /\ [][NextSelect]_vars

(***************************************************************************)
(* SpecMultiFetch: one batch of the parallel multi backend.  A worker      *)
(* takes a queued request when the pool has room, and its fetch succeeds   *)
(* or fails at any time; after the cancellation a worker drops what it has *)
(* in flight.                                                              *)
(***************************************************************************)
MaxRequests == 3

Parallelisms == {1, 2, 3}

WorkerErrors == {"FetchIOError", "FetchTimeoutError"}

MfInit ==
    /\ mfParallelism \in Parallelisms
    /\ \E n \in 0..MaxRequests :
          /\ mfState = [i \in 1..n |-> "queued"]
          /\ mfErr = [i \in 1..n |-> "nil"]
    /\ mfToken = NewToken
    /\ mfRet = [series |-> <<>>, err |-> "nil"]
    /\ mfPc = "fetching"

InFlight == {i \in 1..Len(mfState) : mfState[i] = "fetching"}

\* a worker of the pool takes the next request: it polls the token before
\* it issues the fetch
StartWorker(i) ==
    /\ mfPc = "fetching"
    /\ mfState[i] = "queued"
    /\ \A j \in 1..(i - 1) : mfState[j] # "queued"
    /\ Cardinality(InFlight) < mfParallelism
    /\ IF mfToken.cancelled
       THEN /\ mfState' = [mfState EXCEPT ![i] = "cancelled"]
            /\ mfErr' = [mfErr EXCEPT ![i] = CancelledError]
       ELSE /\ mfState' = [mfState EXCEPT ![i] = "fetching"]
            /\ mfErr' = mfErr
    /\ UNCHANGED <<mfParallelism, mfToken, mfRet, mfPc, trVars, aggVars, redVars, ruleVars, apVars, joinVars, bkVars, fetchVars, fcVars, evVars, cmdVars, prVars, hpVars>>

\* the fetch of a worker returns its series before any cancellation
WorkerSucceeds(i) ==
    /\ mfPc = "fetching"
    /\ mfState[i] = "fetching"
    /\ ~mfToken.cancelled
    /\ mfState' = [mfState EXCEPT ![i] = "done"]
    /\ UNCHANGED <<mfParallelism, mfErr, mfToken, mfRet, mfPc, trVars, aggVars, redVars, ruleVars, apVars, joinVars, bkVars, fetchVars, fcVars, evVars, cmdVars, prVars, hpVars>>

\* the fetch of a worker fails: the worker cancels the token
WorkerFails(i) ==
    /\ mfPc = "fetching"
    /\ mfState[i] = "fetching"
    /\ \E e \in WorkerErrors :
          /\ mfState' = [mfState EXCEPT ![i] = "failed"]
          /\ mfErr' = [mfErr EXCEPT ![i] = e]
          /\ mfToken' = Cancel(mfToken, i)
    /\ UNCHANGED <<mfParallelism, mfRet, mfPc, trVars, aggVars, redVars, ruleVars, apVars, joinVars, bkVars, fetchVars, fcVars, evVars, cmdVars, prVars, hpVars>>

\* a worker sees the cancelled token: it drops what it has in flight and
\* exits with the cancellation error
WorkerDrops(i) ==
    /\ mfPc = "fetching"
    /\ mfState[i] = "fetching"
    /\ mfToken.cancelled
    /\ mfState' = [mfState EXCEPT ![i] = "cancelled"]
    /\ mfErr' = [mfErr EXCEPT ![i] = CancelledError]
    /\ UNCHANGED <<mfParallelism, mfToken, mfRet, mfPc, trVars, aggVars, redVars, ruleVars, apVars, joinVars, bkVars, fetchVars, fcVars, evVars, cmdVars, prVars, hpVars>>

\* all the workers have exited: the batch returns
BatchReturns ==
    /\ mfPc = "fetching"
    /\ \A i \in 1..Len(mfState) : mfState[i] \in {"done", "failed", "cancelled"}
    /\ mfRet' = batchResult(mfState, mfErr, mfToken)
    /\ mfPc' = "returned"
    /\ UNCHANGED <<mfParallelism, mfState, mfErr, mfToken, trVars, aggVars, redVars, ruleVars, apVars, joinVars, bkVars, fetchVars, fcVars, evVars, cmdVars, prVars, hpVars>>

InitMultiFetch == MfInit /\ TrIdle /\ AggIdle /\ RedIdle /\ RuleIdle /\ ApIdle /\ JoinIdle /\ BkIdle /\ FetchIdle /\ FcIdle /\ EvIdle /\ CmdIdle /\ PrIdle /\ HpIdle

NextMultiFetch ==
    \/ \E i \in 1..Len(mfState) : StartWorker(i)
    \/ \E i \in 1..Len(mfState) : WorkerSucceeds(i)
    \/ \E i \in 1..Len(mfState) : WorkerFails(i)
    \/ \E i \in 1..Len(mfState) : WorkerDrops(i)
    \/ BatchReturns

SpecMultiFetch == InitMultiFetch /\ [][NextMultiFetch]_vars

(***************************************************************************)
(* SpecCommand: the execution of one command through wrappedCommand; the   *)
(* calls of the API and of the backend fail or not.                        *)
(***************************************************************************)
CommandFetchLimit == 2

ApiErrors == {"nil", "api: no such metric", "api: unavailable"}

DescribePredicates == {TruePredicate, Predicate(<<[key |-> "env", value |-> "A"]>>)}

Commands ==
    [name : {"describe"}, metricName : {"cpu", "mem"}, predicate : DescribePredicates,
     tagKey : {""}, tagValue : {""}, expression : {<<>>}]
        \cup [name : {"describe all"}, metricName : {""}, predicate : {NilPredicate},
               tagKey : {""}, tagValue : {""}, expression : {<<>>}]
        \cup [name : {"describe metrics"}, metricName : {""}, predicate : {NilPredicate},
               tagKey : {"dc", "env"}, tagValue : {"A", "B"}, expression : {<<>>}]
        \cup [name : {"select"}, metricName : {""}, predicate : SelectPredicates,
               tagKey : {""}, tagValue : {""}, expression : Expressions]

CmdInit ==
    /\ cmd \in Commands
    /\ cmdMetric \in BOOLEAN
    /\ cmdCollab = <<>>
    /\ cmdLatency = <<>>
    /\ cmdRet = [result |-> NoResult, err |-> "nil"]
    /\ cmdPc = "Execute"

\* wrappedCommand.Execute: delegates, records the latency, returns what the
\* command returned
Returned(r, collab) ==
    /\ cmdRet' = r
    /\ cmdCollab' = collab
    /\ cmdLatency' = IF cmdMetric
                      THEN <<[name |-> cmd.name, errored |-> r.err # "nil"]>>
                      ELSE <<>>
    /\ cmdPc' = "returned"
    /\ UNCHANGED <<cmd, cmdMetric, trVars, aggVars, redVars, ruleVars, apVars, joinVars, bkVars, fetchVars, fcVars, evVars, mfVars, prVars, hpVars>>

ExecuteDescribe ==
    /\ cmdPc = "Execute"
    /\ cmd.name = "describe"
    /\ \E apiErr \in ApiErrors :
          Returned(DescribeExecute(cmd, apiErr), IF apiErr = "nil" THEN <<>> ELSE <<apiErr>>)

ExecuteDescribeAll ==
    /\ cmdPc = "Execute"
    /\ cmd.name = "describe all"
    /\ \E apiErr \in ApiErrors :
          Returned(DescribeAllExecute(cmd, apiErr), IF apiErr = "nil" THEN <<>> ELSE <<apiErr>>)

ExecuteDescribeMetrics ==
    /\ cmdPc = "Execute"
    /\ cmd.name = "describe metrics"
    /\ \E apiErr \in ApiErrors :
          Returned(DescribeMetricsExecute(cmd, apiErr), IF apiErr = "nil" THEN <<>> ELSE <<apiErr>>)

ExecuteSelectCommand ==
    /\ cmdPc = "Execute"
    /\ cmd.name = "select"
    /\ \E timerangeErr \in {"nil", "invalid timerange"}, tagsFail \in BOOLEAN, fetchFail \in BOOLEAN :
          Returned(SelectExecuteOne(cmd, CommandFetchLimit, timerangeErr, tagsFail, fetchFail),
                   SelectCollabErrors(cmd, CommandFetchLimit, timerangeErr, tagsFail, fetchFail))

InitCommand == CmdInit /\ TrIdle /\ AggIdle /\ RedIdle /\ RuleIdle /\ ApIdle /\ JoinIdle /\ BkIdle /\ FetchIdle /\ FcIdle /\ EvIdle /\ MfIdle /\ PrIdle /\ HpIdle

NextCommand ==
    \/ ExecuteDescribe
    \/ ExecuteDescribeAll
    \/ ExecuteDescribeMetrics
    \/ ExecuteSelectCommand

SpecCommand == InitCommand /\ [][NextCommand]_vars

(***************************************************************************)
(* SpecProfiler: goroutines that share one Profiler call Record, complete  *)
(* it, and call All and Flush, in any interleaving.  The append of Record  *)
(* and the exchange of Flush are a read and a write of p.profiles.         *)
(***************************************************************************)
MaxRecords == 3

MaxReads == 2

Goroutines == {1, 2}

ProfileNames == {"fetch", "evaluate"}

PrInit ==
    /\ profiles = NoProfiles
    /\ mutex = 0
    /\ prPc = [g \in Goroutines |-> "idle"]
    /\ prProfile = [g \in Goroutines |-> NoProfile]
    /\ prLocal = [g \in Goroutines |-> NoProfiles]
    /\ prCalls = 0
    /\ prCompleted = {}
    /\ prAll = <<>>
    /\ prFlushed = <<>>

\* p.Record(name): takes the start time and returns the function
CallRecord(g) ==
    /\ prPc[g] = "idle"
    /\ prCalls < MaxRecords
    /\ \E name \in ProfileNames :
          prProfile' = [prProfile EXCEPT ![g] = [name |-> name, call |-> prCalls + 1]]
    /\ prCalls' = prCalls + 1
    /\ prPc' = [prPc EXCEPT ![g] = "Record"]
    /\ UNCHANGED <<profiles, mutex, prLocal, prCompleted, prAll, prFlushed, trVars, aggVars, redVars, ruleVars, apVars, joinVars, bkVars, fetchVars, fcVars, evVars, mfVars, cmdVars, hpVars>>

\* the function Record returned: p.mutex.Lock()
RecordLock(g) ==
    /\ prPc[g] = "Record"
    /\ CanLock(mutex)
    /\ mutex' = g
    /\ prPc' = [prPc EXCEPT ![g] = "RecordLocked"]
    /\ UNCHANGED <<profiles, prProfile, prLocal, prCalls, prCompleted, prAll, prFlushed, trVars, aggVars, redVars, ruleVars, apVars, joinVars, bkVars, fetchVars, fcVars, evVars, mfVars, cmdVars, hpVars>>

\* append reads p.profiles
RecordRead(g) ==
    /\ prPc[g] = "RecordLocked"
    /\ prLocal' = [prLocal EXCEPT ![g] = profiles]
    /\ prPc' = [prPc EXCEPT ![g] = "RecordAppend"]
    /\ UNCHANGED <<profiles, mutex, prProfile, prCalls, prCompleted, prAll, prFlushed, trVars, aggVars, redVars, ruleVars, apVars, joinVars, bkVars, fetchVars, fcVars, evVars, mfVars, cmdVars, hpVars>>

\* p.profiles = append(...); the deferred Unlock
RecordWrite(g) ==
    /\ prPc[g] = "RecordAppend"
    /\ profiles' = Append(prLocal[g], prProfile[g])
    /\ mutex' = 0
    /\ prCompleted' = prCompleted \cup {prProfile[g].call}
    /\ prPc' = [prPc EXCEPT ![g] = "idle"]
    /\ UNCHANGED <<prProfile, prLocal, prCalls, prAll, prFlushed, trVars, aggVars, redVars, ruleVars, apVars, joinVars, bkVars, fetchVars, fcVars, evVars, mfVars, cmdVars, hpVars>>

\* p.All(): Lock, return p.profiles, Unlock
CallAll(g) ==
    /\ prPc[g] = "idle"
    /\ Len(prAll) + Len(prFlushed) < MaxReads
    /\ CanLock(mutex)
    /\ prAll' = Append(prAll, profiles)
    /\ UNCHANGED <<profiles, mutex, prPc, prProfile, prLocal, prCalls, prCompleted, prFlushed, trVars, aggVars, redVars, ruleVars, apVars, joinVars, bkVars, fetchVars, fcVars, evVars, mfVars, cmdVars, hpVars>>

\* p.Flush(): Lock, result := p.profiles
FlushLock(g) ==
    /\ prPc[g] = "idle"
    /\ Len(prAll) + Len(prFlushed) < MaxReads
    /\ CanLock(mutex)
    /\ mutex' = g
    /\ prLocal' = [prLocal EXCEPT ![g] = profiles]
    /\ prPc' = [prPc EXCEPT ![g] = "Flush"]
    /\ UNCHANGED <<profiles, prProfile, prCalls, prCompleted, prAll, prFlushed, trVars, aggVars, redVars, ruleVars, apVars, joinVars, bkVars, fetchVars, fcVars, evVars, mfVars, cmdVars, hpVars>>

\* p.profiles = []Profile{}; return result; the deferred Unlock
FlushReturn(g) ==
    /\ prPc[g] = "Flush"
    /\ profiles' = NoProfiles
    /\ prFlushed' = Append(prFlushed, prLocal[g])
    /\ mutex' = 0
    /\ prPc' = [prPc EXCEPT ![g] = "idle"]
    /\ UNCHANGED <<prProfile, prLocal, prCalls, prCompleted, prAll, trVars, aggVars, redVars, ruleVars, apVars, joinVars, bkVars, fetchVars, fcVars, evVars, mfVars, cmdVars, hpVars>>

InitProfiler == PrInit /\ TrIdle /\ AggIdle /\ RedIdle /\ RuleIdle /\ ApIdle /\ JoinIdle /\ BkIdle /\ FetchIdle /\ FcIdle /\ EvIdle /\ MfIdle /\ CmdIdle /\ HpIdle

NextProfiler ==
    \/ \E g \in Goroutines : CallRecord(g)
    \/ \E g \in Goroutines : RecordLock(g)
    \/ \E g \in Goroutines : RecordRead(g)
    \/ \E g \in Goroutines : RecordWrite(g)
    \/ \E g \in Goroutines : CallAll(g)
    \/ \E g \in Goroutines : FlushLock(g)
    \/ \E g \in Goroutines : FlushReturn(g)

SpecProfiler == InitProfiler /\ [][NextProfiler]_vars

(***************************************************************************)
(* SpecFrame: one call of a transform through ApplyTransform, of groupBy   *)
(* or of AggregateBy on a series list whose values are arrays of the heap. *)
(***************************************************************************)
MaxHeapSeries == 2

HeapVectors == {<<F(1), NaN>>, <<F(3), F(1)>>}

HeapParameters == {<<ScalarValue(F(17))>>, <<StringValue>>}

HpInit ==
    /\ \E n \in 0..MaxHeapSeries :
        \E vs \in [1..n -> HeapVectors], ts \in [1..n -> GroupTagSets], tr \in Timeranges :
            /\ heap = vs
            /\ hpList = [Series |-> [i \in 1..n |-> [Values |-> i, TagSet |-> ts[i]]],
                         Timerange |-> tr,
                         Name |-> "cpu"]
    /\ hpBefore = [heap |-> heap, list |-> hpList]
    /\ hpRet = <<>>
    /\ hpGroups = <<>>
    /\ hpOp = "call"

DoTransformOnHeap ==
    /\ hpOp = "call"
    /\ \E t \in Transforms, params \in HeapParameters :
        LET r == ApplyTransformOnHeap(heap, hpList, t, params)
        IN  /\ heap' = r.heap
            /\ hpRet' = r.series
            /\ hpOp' = t.name
    /\ UNCHANGED <<hpList, hpBefore, hpGroups, trVars, aggVars, redVars, ruleVars, apVars, joinVars, bkVars, fetchVars, fcVars, evVars, mfVars, cmdVars, prVars>>

DoGroupByOnHeap ==
    /\ hpOp = "call"
    /\ \E tagList \in TagLists :
        LET gs == groupByOnHeap(heap, hpList, tagList)
        IN  /\ hpGroups' = gs
            /\ hpRet' = Concat([i \in 1..Len(gs) |-> gs[i].List])
            /\ hpOp' = "groupBy"
    /\ UNCHANGED <<heap, hpList, hpBefore, trVars, aggVars, redVars, ruleVars, apVars, joinVars, bkVars, fetchVars, fcVars, evVars, mfVars, cmdVars, prVars>>

DoAggregateByOnHeap ==
    /\ hpOp = "call"
    /\ \E agg \in Aggregators, tagList \in TagLists :
        LET r == AggregateByOnHeap(heap, hpList, agg, tagList)
        IN  /\ heap' = r.heap
            /\ hpRet' = r.series
            /\ hpOp' = "AggregateBy"
    /\ UNCHANGED <<hpList, hpBefore, hpGroups, trVars, aggVars, redVars, ruleVars, apVars, joinVars, bkVars, fetchVars, fcVars, evVars, mfVars, cmdVars, prVars>>

InitFrame == HpInit /\ TrIdle /\ AggIdle /\ RedIdle /\ RuleIdle /\ ApIdle /\ JoinIdle /\ BkIdle /\ FetchIdle /\ FcIdle /\ EvIdle /\ MfIdle /\ CmdIdle /\ PrIdle

NextFrame ==
    \/ DoTransformOnHeap
    \/ DoGroupByOnHeap
    \/ DoAggregateByOnHeap

SpecFrame == InitFrame /\ [][NextFrame]_vars

(***************************************************************************)
(* Properties of the naming rules.                                         *)
(***************************************************************************)
\* the tagged metric handed to ToGraphiteName is the one MatchRule returned
ReversedTheMatch ==
    /\ ruleOp = "ToGraphiteName"
    /\ tm = [MetricKey |-> matchRes.MetricKey, TagSet |-> matchRes.TagSet]

\* C1, as amended: for every compiled rule R whose metric key pattern holds
\* at most one %tag% and every name N that R matches, R.ToGraphiteName of
\* the matched tagged metric returns exactly N with no error.
C1_RoundTrip ==
    (ReversedTheMatch /\ Len(rule.metricKeyTags) <= 1) =>
        reversed = [name |-> input, err |-> "nil"]

\* C1, as claimed: for every compiled rule R and every name N that R
\* matches, R.ToGraphiteName of the matched tagged metric returns exactly N
\* with no error.
C1_Original == ReversedTheMatch => reversed = [name |-> input, err |-> "nil"]

C1_Witness ==
    /\ ReversedTheMatch
    /\ rule.raw.Pattern = <<"%", "f", "%", ".", "%", "b", "%">>
    /\ rule.raw.MetricKeyPattern = <<"a", ".", "%", "b", "%">>
    /\ input = <<"a", "a", ".", "a">>
    /\ tm.MetricKey = <<"a", ".", "a">>
    /\ DOMAIN tm.TagSet = {<<"f">>}
    /\ reversed.name = input

\* the pattern is a literal without "%" followed by one tag
IsPrefixAndTag(pattern, prefix, tag) ==
    /\ pattern = prefix \o <<"%">> \o tag \o <<"%">>
    /\ \A i \in 1..Len(prefix) : prefix[i] # "%"
    /\ \A i \in 1..Len(tag) : tag[i] # "%"
    /\ tag # <<>>

\* C2: without a custom regex a rule matches a name only as a whole string
\* and every %tag% captures a non-empty run of characters without "."; a
\* rule "prefix.%foo%" with a literal metric key matches exactly the names
\* "prefix." followed by such a run, with foo the run.
C2_WholeStringMatch ==
    (ruleOp = "MatchRule" /\ rule.raw.Regex = NewTagSet) =>
        /\ matchRes.matched =>
            /\ DOMAIN matchRes.captures = Range(rule.graphitePatternTags)
            /\ \A t \in DOMAIN matchRes.captures :
                 /\ matchRes.captures[t] # <<>>
                 /\ "." \notin Range(matchRes.captures[t])
            /\ Interpolate(rule.raw.Pattern, matchRes.captures)
                 = [err |-> "nil", text |-> input]
        /\ \A n \in 0..Len(rule.raw.Pattern) :
             LET prefix == SubSeq(rule.raw.Pattern, 1, n)
                 tag == SubSeq(rule.raw.Pattern, n + 2, Len(rule.raw.Pattern) - 1)
                 run == SubSeq(input, n + 1, Len(input))
             IN  (/\ IsPrefixAndTag(rule.raw.Pattern, prefix, tag)
                  /\ rule.metricKeyTags = <<>>)
                 => /\ matchRes.matched <=>
                         /\ IsPrefix(prefix, input)
                         /\ run # <<>>
                         /\ "." \notin Range(run)
                    /\ matchRes.matched =>
                         /\ matchRes.TagSet = [t \in {tag} |-> run]
                         /\ matchRes.MetricKey = rule.raw.MetricKeyPattern

C2_Witness ==
    /\ ruleOp = "MatchRule"
    /\ rule.raw.Pattern = <<"a", ".", "%", "f", "%">>
    /\ rule.raw.MetricKeyPattern = <<"a">>
    /\ rule.raw.Regex = NewTagSet
    /\ input = <<"a", ".", "a", "a">>
    /\ matchRes.matched
    /\ matchRes.TagSet = [t \in {<<"f">>} |-> <<"a", "a">>]

\* the non-empty substrings of a string
Substrings(s) == {SubSeq(s, i, j) : i \in 1..Len(s), j \in 1..Len(s)} \ {<<>>}

\* some values of its tags, each a run its class accepts, turn the metric
\* key pattern into the key
KeyCanMatch(r, key) ==
    \E caps \in [Range(r.metricKeyTags) -> Substrings(key)] :
        /\ \A t \in DOMAIN caps : Range(caps[t]) \subseteq ClassOf(r, t)
        /\ Interpolate(r.raw.MetricKeyPattern, caps) = [err |-> "nil", text |-> key]

\* a tag of the pattern is neither in the tag set nor part of the metric key
TagIsMissing(r, metric) ==
    \E i \in 1..Len(r.graphitePatternTags) :
        /\ r.graphitePatternTags[i] \notin DOMAIN metric.TagSet
        /\ r.graphitePatternTags[i] \notin Range(r.metricKeyTags)

\* C3: ToGraphiteName fails with CannotInterpolate when the metric key
\* pattern cannot match the metric key and with MissingTag when it can and
\* a tag the pattern needs is absent; with an error the name is empty.
C3_ToGraphiteNameErrors ==
    ruleOp = "ToGraphiteName" =>
        /\ ~KeyCanMatch(rule, tm.MetricKey)
             => reversed = [name |-> <<>>, err |-> "CannotInterpolate"]
        /\ (KeyCanMatch(rule, tm.MetricKey) /\ TagIsMissing(rule, tm))
             => reversed = [name |-> <<>>, err |-> "MissingTag"]
        /\ (KeyCanMatch(rule, tm.MetricKey) /\ ~TagIsMissing(rule, tm))
             => reversed.err = "nil"
        /\ reversed.err # "nil" => reversed.name = <<>>

C3_Witness ==
    /\ ruleOp = "ToGraphiteName"
    /\ rule.raw.Pattern = <<"a", ".", "%", "f", "%">>
    /\ rule.raw.MetricKeyPattern = <<"a">>
    /\ tm = [MetricKey |-> <<"a">>, TagSet |-> NewTagSet]
    /\ reversed = [name |-> <<>>, err |-> "MissingTag"]

(***************************************************************************)
(* Properties of package aggregate.                                        *)
(***************************************************************************)
\* the values of the tags of tagList in a tag set, absent keys reading ""
TagValues(tagSet, tagList) == [i \in 1..Len(tagList) |-> Lookup(tagSet, tagList[i])]

\* what identifies a series in a grouping: its values and its grouped tags
SeriesKey(series, tagList) == <<series.Values, TagValues(series.TagSet, tagList)>>

RECURSIVE MembersUpTo(_, _)
\* the members of the first n groups, one after the other
MembersUpTo(gs, n) == IF n = 0 THEN <<>> ELSE MembersUpTo(gs, n - 1) \o gs[n].List

Occurrences(seq, tagList, key) ==
    Cardinality({i \in 1..Len(seq) : SeriesKey(seq[i], tagList) = key})

SeriesKeys(seq, tagList) == {SeriesKey(seq[i], tagList) : i \in 1..Len(seq)}

\* every series is in the groups as often as it is in the input
SameSeries(series, gs, tagList) ==
    LET members == MembersUpTo(gs, Len(gs))
    IN  /\ Len(members) = Len(series)
        /\ \A key \in SeriesKeys(series, tagList) \cup SeriesKeys(members, tagList) :
              Occurrences(series, tagList, key) = Occurrences(members, tagList, key)

\* C4: groupBy(L, S) is a partition of L.Series: the members of all groups
\* together are the input series, each as often as the input holds it, and
\* no group is empty.
C4_GroupByPartition ==
    aggOp = "groupBy" =>
        /\ SameSeries(list.Series, groups, tags)
        /\ \A g \in 1..Len(groups) : Len(groups[g].List) >= 1

C4_Witness ==
    /\ aggOp = "groupBy"
    /\ Len(list.Series) = 3
    /\ Len(groups) = 2
    /\ tags = <<"dc", "env">>

\* C5: two series are in the same group iff their tag sets agree on every
\* key of tags, an absent key counting as "": the members of one group agree
\* on the tags, the members of two different groups do not, and the members
\* are the input series.
C5_SameGroupIffSameTags ==
    aggOp = "groupBy" =>
        /\ SameSeries(list.Series, groups, tags)
        /\ \A g, h \in 1..Len(groups) :
             \A i \in 1..Len(groups[g].List), j \in 1..Len(groups[h].List) :
                (g = h) <=> (TagValues(groups[g].List[i].TagSet, tags)
                               = TagValues(groups[h].List[j].TagSet, tags))

C5_Witness ==
    /\ aggOp = "groupBy"
    /\ tags = <<"dc", "env">>
    /\ Len(groups) = 2
    /\ \E g \in 1..Len(groups) : Len(groups[g].List) = 2
    /\ \E i, j \in 1..Len(list.Series) :
        /\ "env" \notin DOMAIN list.Series[i].TagSet
        /\ "env" \notin DOMAIN list.Series[j].TagSet
        /\ i # j
        /\ TagValues(list.Series[i].TagSet, tags) = TagValues(list.Series[j].TagSet, tags)

\* the keys of a tag set that are in tagList, with their values
Projection(tagSet, tagList) ==
    [key \in DOMAIN tagSet \cap Range(tagList) |-> tagSet[key]]

\* C6: the representative tag set of every group is the projection onto
\* tags of the tag set of each input series that is a member of the group.
C6_RepresentativeIsProjection ==
    aggOp = "groupBy" =>
        \A g \in 1..Len(groups) : \A s \in 1..Len(list.Series) :
            (\E m \in 1..Len(groups[g].List) :
                SeriesKey(groups[g].List[m], tags) = SeriesKey(list.Series[s], tags))
            => groups[g].TagSet = Projection(list.Series[s].TagSet, tags)

\* the input series whose grouped tags read as those of the tag set rep
SeriesOfGroup(rep) ==
    SelectSeq(list.Series, LAMBDA s : TagValues(s.TagSet, tags) = TagValues(rep, tags))

\* C7: AggregateBy returns one series per group; slot i of it is the reducer
\* applied to slot i of the members of the group, in their input order, its
\* tag set is the representative of the group, and the Timerange and the
\* Name are those of the input list.
C7_AggregateBy ==
    aggOp = "AggregateBy" =>
        /\ Len(aggResult.Series) = Len(groups)
        /\ Len(aggResult.Series)
             = Cardinality({TagValues(list.Series[s].TagSet, tags) : s \in 1..Len(list.Series)})
        /\ aggResult.Timerange = list.Timerange
        /\ aggResult.Name = list.Name
        /\ \A g \in 1..Len(groups) :
             LET members == SeriesOfGroup(groups[g].TagSet)
                 out == aggResult.Series[g]
             IN  /\ out.TagSet = groups[g].TagSet
                 /\ Len(members) >= 1
                 /\ Len(out.Values) = Len(members[1].Values)
                 /\ \A i \in 1..Len(out.Values) :
                      out.Values[i]
                        = Aggregate(aggregator, [j \in 1..Len(members) |-> members[j].Values[i]])

C7_Witness ==
    /\ aggOp = "AggregateBy"
    /\ aggregator = "Mean"
    /\ tags = <<"dc">>
    /\ Len(list.Series) = 2
    /\ Len(aggResult.Series) = 1
    /\ aggResult.Series[1].Values = <<F(2), F(1)>>

(***************************************************************************)
(* Properties of the reducers.                                             *)
(***************************************************************************)
WithoutNaN(a) == SelectSeq(a, LAMBDA v : v.k # "nan")

\* C8: every reducer returns on a slice what it returns on the slice without
\* its NaN entries; on a slice that is empty or all NaN, Sum returns 0 and
\* Mean, Min and Max return NaN.
C8_ReducersDropNaN ==
    reducer \in Aggregators =>
        /\ reduced = Aggregate(reducer, WithoutNaN(array))
        /\ WithoutNaN(array) = <<>> =>
             reduced = (IF reducer = "Sum" THEN Zero ELSE NaN)

C8_Witness ==
    /\ reducer = "Sum"
    /\ Len(array) = 2
    /\ \A i \in 1..Len(array) : IsNaN(array[i])
    /\ reduced = Zero

(***************************************************************************)
(* Properties of package transform.                                        *)
(***************************************************************************)
\* r * sc = a - b for finite numbers, by cross-multiplication
IsScaledDifference(r, a, b, sc) ==
    /\ IsFin(r)
    /\ r.n * sc.n * a.d * b.d = (a.n * b.d - b.n * a.d) * r.d * sc.d

\* what Derivative returns but for the slots that are NaN
DerivativeShape ==
    /\ Len(result) = Len(values)
    /\ Len(values) >= 1 => result[1] = Zero
    /\ \A i \in 2..Len(values) :
         LET a == values[i]
             b == values[i - 1]
         IN  /\ (IsFin(a) /\ IsFin(b)) => IsScaledDifference(result[i], a, b, scale)
             /\ (IsInf(a) /\ ~IsNaN(b) /\ a # b) => result[i] = a
             /\ (IsFin(a) /\ IsInf(b)) => result[i] = FNeg(b)

\* C9, as amended: Derivative returns a vector of the length of the input
\* with result[0] = 0 and result[i] = (v[i] - v[i-1]) / scale for i >= 1; for
\* i >= 1 the result is NaN exactly when v[i] or v[i-1] is NaN or both are
\* the same infinity (scale is finite and positive).
C9_Derivative ==
    op = "Derivative" =>
        /\ DerivativeShape
        /\ \A i \in 2..Len(values) :
             IsNaN(result[i]) <=>
                \/ IsNaN(values[i])
                \/ IsNaN(values[i - 1])
                \/ IsInf(values[i]) /\ values[i] = values[i - 1]

\* C9, as claimed: for i >= 1 the result is NaN exactly when v[i] or v[i-1]
\* is NaN.
C9_Original ==
    op = "Derivative" =>
        /\ DerivativeShape
        /\ \A i \in 2..Len(values) :
             IsNaN(result[i]) <=> (IsNaN(values[i]) \/ IsNaN(values[i - 1]))

C9_Witness ==
    /\ op = "Derivative"
    /\ Len(values) = 3
    /\ values[1] = PosInf
    /\ values[2] = PosInf
    /\ IsNaN(result[2])
    /\ values[3] = F(2)
    /\ result[3] = NegInf

\* C10: Rate is Derivative slot by slot with every negative slot replaced by
\* 0; a slot that is NaN in Derivative is NaN in Rate, and no slot of Rate
\* is negative.
C10_Rate ==
    op = "Rate" =>
        /\ Len(result) = Len(values)
        /\ \A i \in 1..Len(values) :
             LET d == Derivative(values, scale)[i]
             IN  /\ result[i] = (IF FLess(d, Zero) THEN Zero ELSE d)
                 /\ IsNaN(d) => IsNaN(result[i])
                 /\ ~FLess(result[i], Zero)

C10_Witness ==
    /\ op = "Rate"
    /\ Len(values) = 3
    /\ values = <<F(2), F(-1), NaN>>
    /\ result = <<Zero, Zero, NaN>>

\* the sum of the entries of a, in order
RECURSIVE SumOf(_)
SumOf(a) == IF a = <<>> THEN Zero ELSE FAdd(SumOf(SubSeq(a, 1, Len(a) - 1)), a[Len(a)])

\* the sum of the non-NaN values at slots 0..i-1 (elements 1..i)
NonNaNSum(vs, i) == SumOf(WithoutNaN(SubSeq(vs, 1, i)))

\* C11: slot i of Integral is scale times the sum of the non-NaN inputs at
\* indices <= i; a NaN input leaves the running sum as it was (0 before the
\* first value), and no slot is NaN when every input is finite or NaN.
C11_Integral ==
    op = "Integral" =>
        /\ Len(result) = Len(values)
        /\ \A i \in 1..Len(values) :
             /\ result[i] = FMul(NonNaNSum(values, i), scale)
             /\ IsNaN(values[i]) => result[i] = (IF i = 1 THEN Zero ELSE result[i - 1])
        /\ (\A i \in 1..Len(values) : ~IsInf(values[i])) =>
             \A i \in 1..Len(values) : ~IsNaN(result[i])

C11_Witness ==
    /\ op = "Integral"
    /\ scale = Fin(1, 2)
    /\ values = <<F(2), NaN, F(2)>>
    /\ result = <<F(1), F(1), F(2)>>

\* v >= 0 (false for NaN)
NonNegative(v) == ~IsNaN(v) /\ ~FLess(v, Zero)

\* a[i] >= a[i-1] at every slot i >= 1
Nondecreasing(a) ==
    \A i \in 2..Len(a) : ~IsNaN(a[i]) /\ ~IsNaN(a[i - 1]) /\ ~FLess(a[i], a[i - 1])

\* C12, as amended: when every input value is >= 0 or NaN, the output of
\* Cumulative is monotonic nondecreasing.
C12_Cumulative ==
    op = "Cumulative" =>
        /\ Len(result) = Len(values)
        /\ (\A i \in 1..Len(values) : IsNaN(values[i]) \/ NonNegative(values[i])) =>
             Nondecreasing(result)

\* C12, as claimed: the output of Cumulative is monotonic nondecreasing if
\* and only if every input value is >= 0.
C12_Original ==
    op = "Cumulative" =>
        (Nondecreasing(result) <=> \A i \in 1..Len(values) : NonNegative(values[i]))

C12_Witness ==
    /\ op = "Cumulative"
    /\ values = <<F(2), NaN, F(2)>>
    /\ result = <<F(2), F(2), F(4)>>

\* the greatest index j <= i with vs[j] not NaN, 0 when there is none
LastNonNaN(vs, i) ==
    LET J == {j \in 1..i : ~IsNaN(vs[j])}
    IN  IF J = {} THEN 0 ELSE CHOOSE j \in J : \A k \in J : k <= j

\* C13: NaNKeepLast keeps every non-NaN slot, and a NaN slot i takes the
\* input value at the greatest index j < i that is not NaN; a slot is NaN
\* exactly when every input slot at an index <= i is NaN.
C13_NaNKeepLast ==
    op = "NaNKeepLast" =>
        /\ Len(result) = Len(values)
        /\ \A i \in 1..Len(values) :
             /\ ~IsNaN(values[i]) => result[i] = values[i]
             /\ (IsNaN(values[i]) /\ LastNonNaN(values, i) # 0) =>
                  result[i] = values[LastNonNaN(values, i)]
             /\ IsNaN(result[i]) <=> \A j \in 1..i : IsNaN(values[j])

C13_Witness ==
    /\ op = "NaNKeepLast"
    /\ values = <<F(2), NaN, NaN>>
    /\ result = <<F(2), F(2), F(2)>>

C15_ApplyTransformFrame ==
    (apOp = "ApplyTransform" /\ apErr = "nil") =>
        /\ apResult.Timerange = apList.Timerange
        /\ apResult.Name = apList.Name
        /\ Len(apResult.Series) = Len(apList.Series)
        /\ \A i \in 1..Len(apList.Series) :
             /\ apResult.Series[i].TagSet = apList.Series[i].TagSet
             /\ Len(apResult.Series[i].Values) = Len(apList.Series[i].Values)

C15_Witness ==
    /\ apOp = "ApplyTransform"
    /\ apErr = "nil"
    /\ apTransform.name = "Default"
    /\ Len(apList.Series) = 2
    /\ apList.Series[1].TagSet # apList.Series[2].TagSet
    /\ Len(apList.Series[1].Values) = 2
    /\ Len(apList.Series[2].Values) = 1
    /\ apResult.Series[1].Values = <<F(2), F(17)>>

(***************************************************************************)
(* Properties of the arithmetic join.                                      *)
(***************************************************************************)
\* the tag sets agree on every key both hold
Agree(l, r) == \A key \in DOMAIN l : key \in DOMAIN r => l[key] = r[key]

\* the pairs (index in left, index in right) whose tag sets agree
CompatiblePairs ==
    {p \in (1..Len(joinLeft.Series)) \X (1..Len(joinRight.Series)) :
        Agree(joinLeft.Series[p[1]].TagSet, joinRight.Series[p[2]].TagSet)}

\* the series the claim expects of a pair
JoinedSeries(p) ==
    LET l == joinLeft.Series[p[1]]
        r == joinRight.Series[p[2]]
    IN  [Values |-> [i \in 1..Len(l.Values) |->
                        IF joinFun = "add" THEN FAdd(l.Values[i], r.Values[i])
                        ELSE FSub(l.Values[i], r.Values[i])],
         TagSet |-> [key \in DOMAIN l.TagSet \cup DOMAIN r.TagSet |->
                        IF key \in DOMAIN l.TagSet THEN l.TagSet[key] ELSE r.TagSet[key]]]

\* C16: the binary operation emits one series for each pair of a left and a
\* right series whose tag sets agree on every key both hold, with values
\* f(l.values[i], r.values[i]) and the union of the tag sets, and nothing
\* else: every series is emitted as often as there are pairs that give it.
C16_ArithmeticJoin ==
    joinOp = "join" =>
        /\ Len(joinResult.Series) = Cardinality(CompatiblePairs)
        /\ \A p \in CompatiblePairs :
             Cardinality({n \in 1..Len(joinResult.Series) :
                            joinResult.Series[n] = JoinedSeries(p)})
               = Cardinality({q \in CompatiblePairs : JoinedSeries(q) = JoinedSeries(p)})

\* two left series, two right series: the first left series is compatible
\* with both right series and yields two outputs, the second disagrees with
\* the first right series on env and yields one
C16_Witness ==
    /\ joinOp = "join"
    /\ joinFun = "subtract"
    /\ joinLeft.Series = <<[Values |-> <<F(1), F(2)>>,
                             TagSet |-> [key \in {"env", "host"} |-> "A"]],
                            [Values |-> <<F(2), NaN>>,
                             TagSet |-> [key \in {"env", "host"} |->
                                            IF key = "env" THEN "B" ELSE "A"]]>>
    /\ Len(joinRight.Series) = 2
    /\ joinRight.Series[1].TagSet = [key \in {"env"} |-> "A"]
    /\ joinRight.Series[2].TagSet = NewTagSet
    /\ Len(joinResult.Series) = 3
    /\ joinResult.Series[1] = joinResult.Series[2]
    /\ joinResult.Series[1] = [Values |-> <<F(-2), F(3)>>,
                                TagSet |-> [key \in {"env", "host"} |-> "A"]]
    /\ joinResult.Series[3].Values = <<F(-1), NaN>>

(***************************************************************************)
(* Properties of the bucketed fetch.                                       *)
(***************************************************************************)
\* floor((timestamp - start) / resolution)
FloorSlot(point) == (point.Timestamp - bkTimerange.start) \div bkTimerange.resolution

\* the selected field of the points whose slot, as slotOf computes it, is i
FieldsInSlot(slotOf(_), i) ==
    LET chosen == SelectSeq(bkPoints, LAMBDA point : slotOf(point) = i)
    IN  [k \in 1..Len(chosen) |-> fieldSelector(bkSample, chosen[k])]

\* C17: a point is placed in slot floor((timestamp - start) / resolution)
\* and dropped when that slot is outside [0, slots): bucket i holds the
\* points of slot i, in the order of the response, and no point with a
\* timestamp before start is in a bucket.
C17_BucketSlot ==
    bkOp = "processResult" =>
        /\ Len(bkBuckets) = Slots(bkTimerange)
        /\ \A i \in 1..Len(bkBuckets) : bkBuckets[i] = FieldsInSlot(FloorSlot, i - 1)

\* the slot addMetricPoint assigns
AssignedSlot(point) == bucketIndex(point, bkTimerange)

\* the rearrangements of the points
Rearrangements(points) ==
    {[k \in 1..Len(points) |-> points[f[k]]] :
        f \in {g \in [1..Len(points) -> 1..Len(points)] :
                 \A a, b \in 1..Len(points) : a # b => g[a] # g[b]}}

\* the mean, the minimum or the maximum of a bucket that is not empty
SampleOf(method, bucket) ==
    CASE method = "SampleMean" -> FDiv(SumOf(bucket), F(Len(bucket)))
      [] method = "SampleMin" ->
            CHOOSE v \in Range(bucket) : \A w \in Range(bucket) : ~FLess(w, v)
      [] method = "SampleMax" ->
            CHOOSE v \in Range(bucket) : \A w \in Range(bucket) : ~FLess(v, w)

\* C18: processResult returns timerange.Slots() values; slot i is NaN when
\* no point was assigned to bucket i and otherwise the mean, the minimum or
\* the maximum of the selected field of the points assigned to it, and the
\* values are the same for every order of the points.
C18_ProcessResult ==
    bkOp = "processResult" =>
        /\ Len(bkValues) = Slots(bkTimerange)
        /\ \A i \in 1..Len(bkValues) :
             LET assigned == FieldsInSlot(AssignedSlot, i - 1)
             IN  bkValues[i] = (IF assigned = <<>> THEN NaN ELSE SampleOf(bkSample, assigned))
        /\ \A points \in Rearrangements(bkPoints) :
             processResult(points, bkTimerange, bkSample) = bkValues

\* two points of one bucket, returned in the order that is not the order
\* of their timestamps; the other two buckets are empty
C18_Witness ==
    /\ bkOp = "processResult"
    /\ bkSample = "SampleMean"
    /\ Len(bkPoints) = 2
    /\ bkPoints[1].Timestamp = 119
    /\ bkPoints[1].Average = F(2)
    /\ bkPoints[2].Timestamp = 95
    /\ bkPoints[2].Average = F(-1)
    /\ bkValues = <<NaN, Fin(1, 2), NaN>>

(***************************************************************************)
(* Properties of the fetch.                                                *)
(***************************************************************************)
\* what fetch returned is the response of the goroutine, the error of the
\* goroutine, or the timeout error after the timer fired
FetchOutcome ==
    fsPc = "fetched" =>
        \/ /\ helperPc = "done"
           /\ helperMsg.err = NilError
           /\ fetchRet = [response |-> helperMsg.response, err |-> NilError]
        \/ /\ helperPc = "done"
           /\ helperMsg.err = BackendError(request.Metric, "FetchIOError", helperMsg.err.Message)
           /\ fetchRet = [response |-> NoResponse, err |-> helperMsg.err]
        \/ /\ helperPc # "done"
           /\ timerFired
           /\ fetchRet = [response |-> NoResponse,
                          err |-> BackendError(request.Metric, "FetchTimeoutError", "")]

\* the caller does not wait in the select once the timer has fired
NoWaitPastDeadline == ~(fsPc = "waiting" /\ timerFired)

\* C19, as amended: fetch returns one outcome, the parsed response, the
\* fetch error of the goroutine or, only after the timeout has fired, the
\* FetchTimeoutError for the metric of the request; a call waiting in the
\* select when the timeout fires returns the timeout error, and every call
\* returns, whether or not the HTTP request does.
C19_FetchTimeout ==
    /\ [](FetchOutcome /\ NoWaitPastDeadline)
    /\ (fsPc = "select") ~> (fsPc = "fetched")

\* C19, as claimed: when the timeout fires before a response or an error
\* was delivered, fetch returns the FetchTimeoutError.
C19_Original ==
    (fsPc = "fetched" /\ timerFired) =>
        fetchRet.err = BackendError(request.Metric, "FetchTimeoutError", "")

\* the timeout error while the GET has not come back
C19_Witness ==
    /\ fsPc = "fetched"
    /\ helperPc = "Get"
    /\ timerFired
    /\ fetchRet.err = BackendError(request.Metric, "FetchTimeoutError", "")

\* C20: every error FetchSingleSeries returns is an api.BackendError with
\* the metric of the request and the code FetchIOError, FetchTimeoutError
\* or InvalidSeriesError.
C20_BackendErrors ==
    (fsPc = "returned" /\ fsRet.err # NilError) =>
        /\ fsRet.err.kind = "BackendError"
        /\ fsRet.err.Metric = request.Metric
        /\ fsRet.err.Code \in {"FetchIOError", "FetchTimeoutError", "InvalidSeriesError"}

(***************************************************************************)
(* Properties of the fetch limit.                                          *)
(***************************************************************************)
\* C21: the count of a query's counter never exceeds its fetch limit; a
\* Consume(k) adds exactly k and succeeds, or fails and leaves the count as
\* it was, and touches no other counter; every SELECT execution gets a new
\* counter with count 0.
C21_FetchLimit ==
    /\ \A c \in 1..Len(counters) : counters[c].count <= counters[c].limit
    /\ fcLast.call = "Consume" =>
         /\ Len(counters) = Len(fcLast.before)
         /\ \A c \in 1..Len(counters) :
              /\ counters[c].limit = fcLast.before[c].limit
              /\ counters[c].count =
                   fcLast.before[c].count + (IF c = fcLast.c /\ fcLast.ok THEN fcLast.k ELSE 0)
    /\ fcLast.call = "NewFetchCounter" =>
         /\ Len(counters) = Len(fcLast.before) + 1
         /\ counters[Len(counters)].count = 0
         /\ \A c \in 1..Len(fcLast.before) : counters[c] = fcLast.before[c]

\* a Consume(2) fails on a counter that admitted 2 of 3, while the counter
\* of another execution is untouched
C21_Witness ==
    /\ Len(counters) = 2
    /\ fcLast = [call |-> "Consume", c |-> 1, k |-> 2, ok |-> FALSE, before |-> counters]
    /\ counters[1] = [limit |-> 3, count |-> 2]
    /\ counters[2] = [limit |-> 3, count |-> 1]

(***************************************************************************)
(* Properties of the evaluation of a SELECT (SpecSelect).                  *)
(***************************************************************************)
FetchLimitExceeded == "fetch limit exceeded: too many series to fetch"

\* C22: a fetch expression admits all its surviving series in one Consume
\* call before any fetch is issued to the backend: every call of
\* FetchMultipleSeries directly follows the admitted Consume of as many
\* series as it requests, itself directly after GetAllTags; a refused
\* Consume is the last call made, no fetch follows it, and the evaluation
\* returned the fetch-limit-exceeded error.
C22_AdmissionBeforeFetch ==
    /\ \A j \in 1..Len(evCalls) :
          evCalls[j].call = "FetchMultipleSeries" =>
              /\ j > 2
              /\ evCalls[j - 1].call = "Consume"
              /\ evCalls[j - 1].ok
              /\ evCalls[j - 1].k = Len(evCalls[j].metrics)
              /\ evCalls[j - 1].metricName = evCalls[j].metricName
              /\ evCalls[j - 2].call = "GetAllTags"
    /\ \A j \in 1..Len(evCalls) :
          evCalls[j].call = "Consume" /\ ~evCalls[j].ok =>
              /\ j = Len(evCalls)
              /\ evPc = "returned"
              /\ evRet = [results |-> <<>>, err |-> FetchLimitExceeded]

\* a fetch was admitted and issued, and the Consume of a later fetch
\* expression was refused
C22_Witness ==
    \E i, j \in 1..Len(evCalls) :
        /\ i < j
        /\ evCalls[i].call = "FetchMultipleSeries"
        /\ evCalls[i].ok
        /\ evCalls[j].call = "Consume"
        /\ evCalls[j].k > 0
        /\ ~evCalls[j].ok

fetchExprs == SelectSeq(evExprs, LAMBDA e : e.kind = "fetch")

fetchCalls == SelectSeq(evCalls, LAMBDA c : c.call = "FetchMultipleSeries")

\* the value of an expression that was evaluated without error
IsValueOf(value, expr) ==
    CASE expr.kind = "scalar" -> value = ScalarExprValue(expr.value)
      [] expr.kind = "fetch" -> value.kind = "serieslist" /\ value.list.Name = expr.metricName
      [] OTHER -> FALSE

\* the errors the evaluation of an expression can return
ErrorsOf(expr) ==
    CASE expr.kind = "scalar" -> {}
      [] expr.kind = "fetch" ->
            {"GetAllTags failed", FetchLimitExceeded, "FetchMultipleSeries failed"}
      [] OTHER -> {"no such function"}

\* C25: evaluateExpressions evaluates the expressions in order and stops
\* at the first failure: it then returns that expression's error and no
\* results, and no later expression was evaluated (no call was made for
\* one); when all succeed, result i is the value of expression i.
C25_FailFast ==
    /\ evIndex = Len(evResults)
    /\ \A i \in 1..Len(evResults) : IsValueOf(evResults[i], evExprs[i])
    /\ evPc = "returned" /\ evCounter.limit # 0 =>
          IF evRet.err # "nil"
          THEN /\ evRet.results = <<>>
               /\ evIndex < Len(evExprs)
               /\ evRet.err \in ErrorsOf(evExprs[evIndex + 1])
               /\ Len(SelectSeq(evCalls, LAMBDA c : c.call = "GetAllTags"))
                      = Len(SelectSeq(SubSeq(evExprs, 1, evIndex + 1),
                                      LAMBDA e : e.kind = "fetch"))
          ELSE /\ evIndex = Len(evExprs)
               /\ evRet.results = evResults

\* the first of two expressions failed and the second, a fetch, made no call
C25_Witness ==
    /\ evPc = "returned"
    /\ Len(evExprs) = 2
    /\ evExprs[2].kind = "fetch"
    /\ evExprs[1].kind = "function"
    /\ evRet = [results |-> <<>>, err |-> "no such function"]
    /\ evCalls = <<>>

\* a predicate that is absent holds of every tag set
Holds(predicate, tagSet) == predicate.isNil \/ ApplyPredicate(predicate, tagSet)

\* the tagged metrics of the tag sets that satisfy both predicates, in the
\* order of the metadata API
Surviving(expr) ==
    LET kept == SelectSeq(GetAllTags(expr.metricName),
                          LAMBDA ts : Holds(evContext.Predicate, ts) /\ Holds(expr.predicate, ts))
    IN  [i \in 1..Len(kept) |-> [MetricKey |-> expr.metricName, TagSet |-> kept[i]]]

\* C26: a fetch expression requests from the backend exactly one tagged
\* metric for each tag set of its metric that satisfies both the predicate
\* of the context and its own (an absent one holds), in the order of the
\* metadata API, and the series list it returns is named after the metric.
C26_FetchSurviving ==
    /\ Len(fetchCalls) <= Len(fetchExprs)
    /\ \A n \in 1..Len(fetchCalls) :
          /\ fetchCalls[n].metricName = fetchExprs[n].metricName
          /\ fetchCalls[n].metrics = Surviving(fetchExprs[n])
    /\ \A i \in 1..Len(evResults) :
          evExprs[i].kind = "fetch" =>
              /\ evResults[i].list.Name = evExprs[i].metricName
              /\ Len(evResults[i].list.Series) = Len(Surviving(evExprs[i]))

\* both predicates are present and one of the three tag sets survives
C26_Witness ==
    /\ ~evContext.Predicate.isNil
    /\ Len(evResults) >= 1
    /\ evExprs[1].kind = "fetch"
    /\ ~evExprs[1].predicate.isNil
    /\ Len(GetAllTags(evExprs[1].metricName)) = 3
    /\ Len(fetchCalls) >= 1
    /\ Len(fetchCalls[1].metrics) = 1
    /\ evResults[1].list.Name = "cpu"

(***************************************************************************)
(* Properties of the parallel multi backend (SpecMultiFetch).              *)
(***************************************************************************)
\* in every state of a batch
MultiFetchInv ==
    /\ mfToken.cancels <= 1
    /\ mfToken.cancelled <=> \E i \in 1..Len(mfState) : mfState[i] = "failed"
    /\ \A i \in 1..Len(mfState) : mfErr[i] = CancelledError => mfToken.cancelled
    /\ mfPc = "returned" =>
          /\ \A i \in 1..Len(mfState) : mfState[i] \in {"done", "failed", "cancelled"}
          /\ IF mfToken.cancelled
             THEN /\ mfRet.series = <<>>
                  /\ mfRet.err \in WorkerErrors
                  /\ mfState[mfToken.by] = "failed"
                  /\ mfRet.err = mfErr[mfToken.by]
             ELSE /\ mfRet.err = "nil"
                  /\ Len(mfRet.series) = Len(mfState)

\* in every step of a batch
MultiFetchStep ==
    /\ mfToken.cancelled => mfToken' = mfToken
    /\ mfToken.cancelled =>
          \A i \in 1..Len(mfState) : mfState'[i] = "done" => mfState[i] = "done"

C24_NoSwallowedError ==
    cmdPc = "returned" =>
        \A i \in 1..Len(cmdCollab) : cmdRet.err = cmdCollab[i]

\* the commands other than DESCRIBE return the error of their collaborator
C24_OtherCommands ==
    cmdPc = "returned" /\ cmd.name # "describe" =>
        \A i \in 1..Len(cmdCollab) : cmdRet.err = cmdCollab[i]

\* DESCRIBE ALL returned the error of GetAllMetrics
C24_OtherCommandsWitness ==
    /\ cmdPc = "returned"
    /\ cmd.name = "describe all"
    /\ cmdCollab = <<"api: unavailable">>
    /\ cmdRet.err = "api: unavailable"

(***************************************************************************)
(* Properties of the profiler (SpecProfiler).                              *)
(***************************************************************************)
RECURSIVE Flatten(_)
Flatten(lists) == IF lists = <<>> THEN <<>> ELSE Head(lists) \o Flatten(Tail(lists))

\* how many times the profile of a call of Record is in a list
TimesIn(l, call) == Cardinality({i \in 1..Len(l) : l[i].call = call})

\* the goroutines between Lock and Unlock
InCriticalSection == {g \in Goroutines : prPc[g] \in {"RecordLocked", "RecordAppend", "Flush"}}

\* C27 as stated: the list of the profiler is append-only: the profile of
\* every completed Record is in p.profiles, once, and is never removed.
C27_Original ==
    \A call \in 1..prCalls :
        TimesIn(profiles, call) = (IF call \in prCompleted THEN 1 ELSE 0)

\* C27: the list of the profiler is protected by its lock and only grows
\* between two calls of Flush: at most one goroutine is between Lock and
\* Unlock; under every interleaving of Record, All and Flush, the profile
\* of every completed Record is exactly once in p.profiles or in the
\* result of exactly one Flush, and the profile of no other Record is in
\* either; All returns the list and leaves it as it is.
C27_Profiler ==
    /\ Cardinality(InCriticalSection) <= 1
    /\ \A g \in InCriticalSection : mutex = g
    /\ \A call \in 1..prCalls :
          TimesIn(profiles \o Flatten(prFlushed), call)
              = (IF call \in prCompleted THEN 1 ELSE 0)
    /\ \A i \in 1..Len(prAll) :
          \A j \in 1..Len(prAll[i]) : prAll[i][j].call \in prCompleted

\* three calls of Record have completed; a Flush returned the profiles of
\* some that completed after the first, and the list holds the rest
C27_Witness ==
    /\ prCompleted = 1..3
    /\ Len(prFlushed) = 1
    /\ Len(prFlushed[1]) >= 1
    /\ Len(profiles) >= 1
    /\ profiles[1].call = 1

(***************************************************************************)
(* Properties of the arrays (SpecFrame).                                   *)
(***************************************************************************)
\* the arrays of the series of the input
InputVectors == {hpBefore.list.Series[i].Values : i \in 1..Len(hpBefore.list.Series)}

\* the arrays of the series returned
ReturnedVectors == {hpRet[i].Values : i \in 1..Len(hpRet)}

\* the input list has the same series with the same tag sets, and every
\* array that existed has the same values
InputUnchanged ==
    /\ hpList = hpBefore.list
    /\ \A a \in 1..Len(hpBefore.heap) : heap[a] = hpBefore.heap[a]

\* every series returned has an array of its own that did not exist before
FreshVectors ==
    /\ \A a \in ReturnedVectors : a > Len(hpBefore.heap) /\ a \notin InputVectors
    /\ \A i, j \in 1..Len(hpRet) : hpRet[i].Values = hpRet[j].Values => i = j

\* C28 as stated: no transform, and neither groupBy nor AggregateBy,
\* changes its input, and the values of every series they return are a
\* fresh vector, distinct from those of the input.
C28_Original == hpOp # "call" => InputUnchanged /\ FreshVectors

\* C28: no transform, and neither groupBy nor AggregateBy, changes its
\* input: the input list has the same series with the same values and tag
\* sets after the call.  The values of every series a transform or
\* AggregateBy returns are a fresh vector; the series in the groups of
\* groupBy share the vectors of the input series, one member for each
\* input series, and groupBy makes no vector.
C28_Frame ==
    hpOp # "call" =>
        /\ InputUnchanged
        /\ hpOp # "groupBy" => FreshVectors
        /\ hpOp = "groupBy" =>
              /\ heap = hpBefore.heap
              /\ ReturnedVectors = InputVectors
              /\ Len(hpRet) = Len(hpList.Series)

\* groupBy returned two series that share the vectors of the two series of
\* the input, with the tag sets of their group
C28_Witness ==
    /\ hpOp = "groupBy"
    /\ Len(hpList.Series) = 2
    /\ ReturnedVectors = {1, 2}
    /\ \E i \in 1..2 : hpRet[i].TagSet # hpList.Series[hpRet[i].Values].TagSet

\* a transform returned vectors of its own for the two series of the input
C28_FreshWitness ==
    /\ hpOp = "Integral"
    /\ Len(hpList.Series) = 2
    /\ ReturnedVectors = {3, 4}
    /\ heap[3] # heap[1]

(***************************************************************************)
(* Properties of the groups handed to applyAggregation (SpecAgg).          *)
(***************************************************************************)
\* C29: every group groupBy hands to applyAggregation holds at least one
\* series, so applyAggregation never panics within AggregateBy; an empty
\* input list gives no group and an empty result; an empty list of tags on
\* an input that is not empty gives exactly one group, with the empty tag
\* set, that holds every series.
C29_NoEmptyGroup ==
    aggOp = "AggregateBy" =>
        /\ \A g \in 1..Len(groups) : Len(groups[g].List) >= 1
        /\ ~aggPanic
        /\ Len(aggResult.Series) = Len(groups)
        /\ Len(list.Series) = 0 => groups = <<>> /\ aggResult.Series = <<>>
        /\ Len(list.Series) > 0 /\ tags = <<>> =>
              /\ Len(groups) = 1
              /\ groups[1].TagSet = NewTagSet
              /\ Len(groups[1].List) = Len(list.Series)
              /\ aggResult.Series[1].TagSet = NewTagSet

\* two series of different dc, grouped by no tag, are one group
C29_Witness ==
    /\ aggOp = "AggregateBy"
    /\ tags = <<>>
    /\ Len(list.Series) = 2
    /\ list.Series[1].TagSet # list.Series[2].TagSet
    /\ Len(groups) = 1
    /\ Len(groups[1].List) = 2
    /\ groups[1].TagSet = NewTagSet
    /\ ~aggPanic

\* the empty list gives the empty result
C29_EmptyWitness ==
    /\ aggOp = "AggregateBy"
    /\ list.Series = <<>>
    /\ groups = <<>>
    /\ aggResult.Series = <<>>

(***************************************************************************)
(* Properties of the goroutine of fetch (SpecFetchHelperLive).             *)
(***************************************************************************)
\* C30: the goroutine that fetch starts for the GET terminates: once
\* started it reaches its end, whatever the order of the completion of the
\* HTTP request and of the timeout; it never stays blocked on the send of
\* its response or of its error.
C30_HelperTerminates == (helperPc = "Get") ~> (helperPc = "done")

====
